---- MODULE Spec2Model ----
(***************************************************************************)
(* Model of the report dispatcher of Bili-Sentinel:                        *)
(*   backend/services/report_service.py  (single-target path, batch path)  *)
(*   backend/services/target_service.py  (status / retry counter writes)   *)
(*   backend/api/reports.py              (the /execute route)              *)
(* Workers are asyncio tasks: a step of the model is the code between two  *)
(* suspension points (await).  Time is the monotonic clock in seconds.     *)
(***************************************************************************)
EXTENDS Integers, Sequences, FiniteSets, TLC

\* ---------------------------------------------------------------- bounds
NumTargets == 2        \* targets of the dispatch specification
NumAccounts == 2       \* stored accounts
NumBatches == 1        \* batch runs of the dispatch specification
MaxRequests == 1       \* requests served in one behaviour of Spec
RaceRequests == 2      \* requests served in one behaviour of SpecRace
StartTime == 1000      \* monotonic clock when the model starts
MaxRuleId == 3         \* largest row id of the auto-reply rule table
MaxTaskId == 2         \* largest row id of the scheduled_tasks table
NoInterval == -1       \* interval_seconds IS NULL
ShortInterval == 5     \* a stored interval below the floor
LongInterval == 60     \* a stored interval above the floor
IntervalUnset == -2    \* interval_seconds absent from an update
ZeroInterval == 0      \* a stored interval that is not positive
MaxTs == 2             \* timestamps of the messages a peer sends
MaxSends == 2          \* replies counted per message
MaxPollTasks == 1      \* autoreply_poll tasks stored at a time
MaxUpdateFields == 2   \* columns named by one account update
MaxConfigs == 2        \* rows of the rule table handed to the matcher
MaxTextLen == 2        \* characters of a message
NumReaders == 2        \* coroutines reading the active accounts at a time
NumWriters == 1        \* coroutines changing the accounts table at a time
NumCallers == 2        \* signed requests in progress at a time
MaxClockSteps == 3     \* advances of the monotonic clock in one behaviour
NumPollAccounts == 2   \* accounts a poll cycle goes through
MaxMsgTs == 2          \* largest timestamp of a message in a session
NumLogins == 2         \* QR logins that can be in flight together
NumUids == 2           \* platform UIDs a QR login can return
MaxLoginRounds == 2    \* logins one client performs one after another
MaxCheckRequests == 3  \* POST /check-all requests
NumCheckAccounts == 2  \* accounts a check-all sweep goes through
MaxDelayArg == 3       \* largest min_s / max_s handed to _human_delay (seconds)
NumStarters == 2       \* start_service calls that can be in flight together
MaxLoops == 3          \* poll loops created in one run
NumSockets == 2        \* websocket clients connected to /ws/logs
ClockStep == 1801      \* an advance of the monotonic clock, just over half the TTL

\* ------------------------------------------------------ program constants
ACCOUNT_COOLDOWN == 90
MIN_DELAY == 3
MAX_DELAY == 12
MAX_RETRY_COUNT == 3
max_rate_retries == 2
SemaphoreCapacity == 5
stale_threshold == 3600
MIN_TASK_INTERVAL_SECONDS == 10
MaxIntervalSeconds == 2592000
RateLimitedSend == 21046
MAX_RETRIES == 3
WBI_TTL_SECONDS == 3600
TooManyRequests == -412
RiskControl == -352
NotLoggedIn == -101
HumanVerification == -799
FrequencyLimit == 862
FrequencyLimitAlt == 101
MaxRetriesReached == -999
NoCode == -1001        \* an envelope without a "code" key
PenaltyBase == 90
PenaltyJitter == 15
CooldownJitter == 5
RateLimitCode == 12019
AlreadyReported == 12008
AlreadyDeleted == 12022
OkCode == 0
FailCode == -1
NoResponse == -1000    \* the result record of the except branch has no "response"

VARIABLES status, retry, acct, ledger, now, wk, bat, lastOut, minGap

\* the auto-reply rule table (autoreply_config) and the last rule operation (ghost)
VARIABLES rules, lastOp

\* the variables of the report dispatcher
dispatchVars == <<status, retry, acct, ledger, now, wk, bat, lastOut, minGap>>

\* the scheduled_tasks table, the jobs registered with APScheduler, and whether
\* start_scheduler has run
VARIABLES tasks, jobs, schedulerRunning

\* the variables of the auto-reply rule table
ruleVars == <<rules, lastOp>>

\* the variables of the scheduler
schedVars == <<tasks, jobs, schedulerRunning>>

\* the inbox poller over one (account, peer) pair: the standalone flag, a
\* start_service call waiting in set_config, the stored last_msg_ts of the pair,
\* the timestamp of the session's last message on the platform, every poll
\* cycle's position, and ghosts: replies sent per message, whether two cycles
\* ever overlapped, the last start_service call or job firing
VARIABLES autoreply_running, starter, last_msg_ts, inbox, cyc,
          sendCount, overlap, pollOp

\* the variables of the inbox poller
pollVars == <<autoreply_running, starter, last_msg_ts, inbox, cyc,
              sendCount, overlap, pollOp>>

\* one stored account row (credentials, status, last check); one client call in
\* flight; one executor invocation; one match_reply_rule call; the
\* active-accounts cache with its readers and writers; the WBI key cache with
\* its callers
VARIABLES account, client, executor, matcher, cache, wbi

\* one poll cycle over the accounts and their sessions; the QR logins in
\* progress with the stored account rows; the check-all sweep of the accounts
\* route; one call of the humanized delay; the standalone poll loops; the
\* live-event channel
VARIABLES pollCycle, qr, checkAll, delay, loops, channel

lateVars == <<pollCycle, qr, checkAll, delay, loops, channel>>

auxVars == <<account, client, executor, matcher, cache, wbi, lateVars>>

\* everything outside the report dispatcher
serviceVars == <<ruleVars, schedVars, pollVars, auxVars>>

\* everything the account, client, executor, matcher and cache models leave alone
coreVars == <<status, retry, acct, ledger, now, wk, bat, lastOut, minGap,
              ruleVars, schedVars, pollVars, lateVars>>

\* everything but the variables of the cycle, login, sweep, delay and loop models
baseVars == <<status, retry, acct, ledger, now, wk, bat, lastOut, minGap,
              ruleVars, schedVars, pollVars,
              account, client, executor, matcher, cache, wbi>>

vars == <<status, retry, acct, ledger, now, wk, bat, lastOut, minGap, rules, lastOp,
          tasks, jobs, schedulerRunning, autoreply_running, starter, last_msg_ts,
          inbox, cyc, sendCount, overlap, pollOp,
          account, client, executor, matcher, cache, wbi,
          pollCycle, qr, checkAll, delay, loops, channel>>

Targets == DOMAIN status
Accounts == 1..NumAccounts
Workers == DOMAIN wk
Batches == DOMAIN bat

VALID_STATUSES == {"pending", "processing", "completed", "failed"}
AcctStates == {"valid", "invalid", "inactive"}

\* responses the platform client can hand to the executor
Outcomes == {OkCode, AlreadyReported, AlreadyDeleted, RateLimitCode, FailCode, NoResponse}

Max(a, b) == IF a >= b THEN a ELSE b
Min(a, b) == IF a <= b THEN a ELSE b

\* random.shuffle(list(accounts)): any order of the selected accounts
Perms(S) == {s \in [1..Cardinality(S) -> S] : \A i, j \in DOMAIN s : i # j => s[i] # s[j]}

\* rows come back from SQLite in id order
RECURSIVE SortedSeq(_)
SortedSeq(S) ==
    IF S = {} THEN <<>>
    ELSE LET m == CHOOSE x \in S : \A y \in S : x <= y
         IN <<m>> \o SortedSeq(S \ {m})

\* get_active_accounts / "is_active = 1 AND status = 'valid'"
ActiveValid(ids) ==
    {a \in Accounts : acct[a] = "valid" /\ (ids = {} \/ a \in ids)}

\* api/reports.py: "is_active = 1"
ActiveOnly(ids) ==
    {a \in Accounts : acct[a] # "inactive" /\ (ids = {} \/ a \in ids)}

\* execute_single_report: success = code == 0 or code in (12022, 12008)
ServiceSuccess(code) == code = OkCode \/ code \in {AlreadyDeleted, AlreadyReported}

\* api/reports.py _execute_single_report: success = result.get("code") == 0
ApiSuccess(code) == code = OkCode

\* _cleanup_stale_cooldowns: entries older than one hour are deleted
\* (an absent entry reads as 0 through .get(id, 0))
CleanupStale(l, t) ==
    [a \in DOMAIN l |-> IF t - l[a] > stale_threshold THEN 0 ELSE l[a]]

\* wait = ACCOUNT_COOLDOWN - elapsed + random.uniform(0, 5)
CooldownWait(elapsed, jitter) == ACCOUNT_COOLDOWN - elapsed + jitter

\* wait = 90 + random.uniform(0, 15)
PenaltyWait(jitter) == PenaltyBase + jitter

\* _human_delay clamps to [min_s, 1.5 * max_s]
HumanDelays == {MIN_DELAY, (3 * MAX_DELAY) \div 2}

\* random.uniform(MIN_DELAY, MAX_DELAY)
ApiDelays == {MIN_DELAY, MAX_DELAY}

Kind(w) == w[1]
IdleWorker ==
    [pc |-> "idle", t |-> 0, order |-> <<>>, i |-> 0, attempt |-> 0,
     results |-> <<>>, wake |-> 0, ret |-> "", req |-> {},
     \* ghost fields: whether this invocation wrote "processing", its executor
     \* calls, whether a response said the target is dealt with, the codes of the
     \* current account's
     \* attempts, when the last of them returned, the shortest retry pause
     setProc |-> FALSE, calls |-> 0, dealt |-> FALSE, cur |-> <<>>, lastEnd |-> -1,
     minPause |-> -1,
     \* ghost fields: the target's status when the invocation arrived, the retry
     \* counter get_target read, the last status this invocation wrote
     st0 |-> "", r0 |-> -1, wrote |-> ""]

Sleeping == {"coolsleep", "pensleep", "humansleep", "apisleep"}

TasksOf(b) == {w \in Workers : Kind(w) = "batch" /\ w[2] = b /\ w[3] \in bat[b].targets}

\* tasks of batch run b inside "async with semaphore"
InFlight(b) ==
    Cardinality({w \in TasksOf(b) : wk[w].pc \notin {"idle", "sem", "done"}})

\* ghost: an outbound report attempt by account a starts now
RecordOut(a) ==
    /\ lastOut' = [lastOut EXCEPT ![a] = now]
    /\ minGap' = [minGap EXCEPT ![a] =
                    IF lastOut[a] < 0 THEN @
                    ELSE IF @ < 0 THEN now - lastOut[a]
                    ELSE Min(@, now - lastOut[a])]

NoOut == UNCHANGED <<lastOut, minGap>>

\* the worker record when execute_single_report is entered for account a
BeginCall(r, a) ==
    [r EXCEPT !.pc = IF r.pc = "apicall" THEN "apicalling" ELSE "calling",
              !.calls = @ + 1,
              !.minPause = IF r.cur = <<>> THEN @
                           ELSE IF @ < 0 THEN now - r.lastEnd
                           ELSE Min(@, now - r.lastEnd)]

\* codes after which the target needs no further report (0 = accepted,
\* 12008 = already reported, 12022 = already deleted)
DealtWithCodes == {0, 12008, 12022}

\* ghost: the attempt returned response code c at time t
EndTry(r, t, c) ==
    [r EXCEPT !.dealt = @ \/ c \in DealtWithCodes, !.cur = Append(@, c), !.lastEnd = t]

\* ------------------------------------------------ claim (caller of the
\* single-target path): UPDATE ... SET status='processing' WHERE status='pending'
claim_target_for_processing(st) == st = "pending"

\* update_target_status(target_id, status)
update_target_status(t, st) == status' = [status EXCEPT ![t] = st]

\* the terminal write without "retry_count = retry_count + 1"
increment_retry_and_set_status_NoCount(t, st) ==
    /\ status' = [status EXCEPT ![t] = st]
    /\ UNCHANGED retry

\* increment_retry_and_set_status(target_id, status)
increment_retry_and_set_status(t, st) ==
    /\ status' = [status EXCEPT ![t] = st]
    /\ retry' = [retry EXCEPT ![t] = @ + 1]

\* final_status = "completed" if any_success else "failed"
FinalStatus(results) ==
    IF \E k \in DOMAIN results : results[k] THEN "completed" ELSE "failed"

\* ------------------------------------------- single-target path (service)
\* the caller claims the target, then launches execute_report_for_target
SingleInvoke(w, t, req) ==
    /\ Kind(w) = "single"
    /\ wk[w].pc = "idle"
    /\ IF claim_target_for_processing(status[t])
       THEN /\ update_target_status(t, "processing")
            /\ wk' = [wk EXCEPT ![w] = [IdleWorker EXCEPT !.pc = "get", !.t = t,
                                        !.req = req, !.setProc = TRUE,
                                        !.st0 = status[t], !.wrote = "processing"]]
       ELSE /\ UNCHANGED status
            /\ wk' = [wk EXCEPT ![w] = [IdleWorker EXCEPT !.pc = "done", !.t = t,
                                        !.req = req, !.ret = "conflict",
                                        !.st0 = status[t]]]
    /\ UNCHANGED <<retry, acct, ledger, now, bat>>
    /\ NoOut

\* the circuit breaker comparing with > instead of >=
MaxRetryReached_Strict(r) == r > MAX_RETRY_COUNT

\* if target.get("retry_count", 0) >= MAX_RETRY_COUNT
MaxRetryReached(r) == r >= MAX_RETRY_COUNT

\* target = get_target(target_id); circuit breaker on retry_count
GetTarget(w) ==
    /\ Kind(w) = "single"
    /\ wk[w].pc = "get"
    /\ wk' = [wk EXCEPT ![w].pc =
                IF MaxRetryReached(retry[wk[w].t]) THEN "cap" ELSE "select",
                     ![w].r0 = retry[wk[w].t]]
    /\ UNCHANGED <<status, retry, acct, ledger, now, bat>>
    /\ NoOut

\* update_target_status(target_id, "failed"); return None, "exceeded max retry"
CapFail(w) ==
    /\ wk[w].pc = "cap"
    /\ update_target_status(wk[w].t, "failed")
    /\ wk' = [wk EXCEPT ![w].pc = "done", ![w].ret = "max_retry", ![w].wrote = "failed"]
    /\ UNCHANGED <<retry, acct, ledger, now, bat>>
    /\ NoOut

\* account selection and shuffle; "No active accounts available" returns at once
SelectAccounts(w) ==
    /\ wk[w].pc = "select"
    /\ LET accounts == ActiveValid(wk[w].req) IN
       IF accounts = {}
       THEN wk' = [wk EXCEPT ![w].pc = "done", ![w].ret = "no_accounts"]
       ELSE \E order \in Perms(accounts) :
                wk' = [wk EXCEPT ![w].pc = "cool", ![w].order = order,
                                 ![w].i = 1, ![w].attempt = 0]
    /\ UNCHANGED <<status, retry, acct, ledger, now, bat>>
    /\ NoOut

\* ------------------------------------------------------------ the sweep
\* cooldown check of one attempt; without a wait the executor is entered
CheckCooldown(w, jitter) ==
    /\ wk[w].pc = "cool"
    /\ LET a == wk[w].order[wk[w].i]
           l1 == IF Kind(w) = "single" THEN CleanupStale(ledger, now) ELSE ledger
           elapsed == now - l1[a]
       IN /\ ledger' = l1
          /\ IF elapsed < ACCOUNT_COOLDOWN
             THEN /\ wk' = [wk EXCEPT ![w].pc = "coolsleep",
                                      ![w].wake = now + CooldownWait(elapsed, jitter)]
                  /\ NoOut
             ELSE /\ wk' = [wk EXCEPT ![w] = BeginCall(@, a)]
                  /\ RecordOut(a)
    /\ UNCHANGED <<status, retry, acct, now, bat>>

\* asyncio.sleep(wait) is over
Wake(w) ==
    /\ wk[w].pc \in {"coolsleep", "pensleep", "humansleep"}
    /\ now >= wk[w].wake
    /\ LET r == wk[w] IN
       IF r.pc = "coolsleep"
       THEN /\ wk' = [wk EXCEPT ![w] = BeginCall(@, r.order[r.i])]
            /\ RecordOut(r.order[r.i])
       ELSE /\ wk' = [wk EXCEPT ![w] =
                        IF r.pc = "pensleep" THEN [r EXCEPT !.pc = "cool"]
                        ELSE IF r.i < Len(r.order)
                             THEN [r EXCEPT !.pc = "cool", !.i = @ + 1, !.attempt = 0,
                                            !.cur = <<>>]
                             ELSE [r EXCEPT !.pc = "final"]]
            /\ NoOut
    /\ UNCHANGED <<status, retry, acct, ledger, now, bat>>

\* the 12019 test comparing with <= instead of <
RateRetry_OneMore(code, attempt) == code = RateLimitCode /\ attempt <= max_rate_retries

\* if resp.get("code") == 12019 and attempt < max_rate_retries
RateRetry(code, attempt) == code = RateLimitCode /\ attempt < max_rate_retries

\* a sweep that never leaves the account loop early
EarlyExit_Never(success) == FALSE

\* if result.get("success"): break
EarlyExit(success) == success

\* execute_single_report returns; ledger write; 12019 policy; early exit
EndCall(w, code, lat, pj, hd) ==
    /\ wk[w].pc = "calling"
    /\ now' = now + lat
    /\ LET r == wk[w]
           a == r.order[r.i]
           t1 == now + lat
           success == code # NoResponse /\ ServiceSuccess(code)
           e == EndTry(r, t1, code)
       IN IF RateRetry(code, r.attempt)
          THEN /\ ledger' = [ledger EXCEPT ![a] = t1 + PenaltyWait(pj)]
               /\ wk' = [wk EXCEPT ![w] = [e EXCEPT !.pc = "pensleep",
                                           !.wake = t1 + PenaltyWait(pj),
                                           !.attempt = @ + 1]]
          ELSE /\ ledger' = [ledger EXCEPT ![a] = t1]
               /\ wk' = [wk EXCEPT ![w] =
                          IF EarlyExit(success)
                          THEN [e EXCEPT !.pc = "final",
                                         !.results = Append(@, success)]
                          ELSE [e EXCEPT !.pc = "humansleep",
                                         !.results = Append(@, success),
                                         !.wake = t1 + hd]]
    /\ UNCHANGED <<status, retry, acct, bat>>
    /\ NoOut

\* terminal write: the single-target path also counts the invocation
Final(w) ==
    /\ wk[w].pc = "final"
    /\ IF Kind(w) = "single"
       THEN increment_retry_and_set_status(wk[w].t, FinalStatus(wk[w].results))
       ELSE /\ update_target_status(wk[w].t, FinalStatus(wk[w].results))
            /\ UNCHANGED retry
    /\ wk' = [wk EXCEPT ![w].pc = "done", ![w].ret = "ok",
                         ![w].wrote = FinalStatus(wk[w].results)]
    /\ UNCHANGED <<acct, ledger, now, bat>>
    /\ NoOut

\* ------------------------------------------------------------ batch path
\* execute_batch_reports: resolve targets and accounts, create the tasks
BatchStart(b, ids) ==
    /\ bat[b].pc = "idle"
    /\ LET targets == IF ids = {} THEN {t \in Targets : status[t] = "pending"} ELSE ids
           accounts == ActiveValid({})
       IN IF targets = {} \/ accounts = {}
          THEN /\ bat' = [bat EXCEPT ![b] = [pc |-> "done", targets |-> {},
                                             accounts |-> {},
                                             ret |-> IF targets = {} THEN "no_targets"
                                                     ELSE "no_accounts"]]
               /\ UNCHANGED wk
          ELSE /\ bat' = [bat EXCEPT ![b] = [pc |-> "running", targets |-> targets,
                                             accounts |-> accounts, ret |-> ""]]
               /\ wk' = [w \in Workers |->
                           IF Kind(w) = "batch" /\ w[2] = b /\ w[3] \in targets
                           THEN [IdleWorker EXCEPT !.pc = "sem", !.t = w[3]]
                           ELSE wk[w]]
    /\ UNCHANGED <<status, retry, acct, ledger, now>>
    /\ NoOut

\* a semaphore that hands out one permit too many
SemaphoreFree_OffByOne(b) == InFlight(b) <= SemaphoreCapacity

\* asyncio.Semaphore(5): a permit is free
SemaphoreFree(b) == InFlight(b) < SemaphoreCapacity

\* gather starts the tasks in the order of the target rows and the semaphore
\* wakes its waiters first-in first-out: the waiting task of the lowest row is next
FirstWaiter(w) ==
    \A v \in TasksOf(w[2]) : wk[v].pc = "sem" => v[3] >= w[3]

\* process_target: async with semaphore; update_target_status("processing"); shuffle
Acquire(w) ==
    /\ Kind(w) = "batch"
    /\ wk[w].pc = "sem"
    /\ SemaphoreFree(w[2])
    /\ FirstWaiter(w)
    /\ update_target_status(wk[w].t, "processing")
    /\ \E order \in Perms(bat[w[2]].accounts) :
          wk' = [wk EXCEPT ![w].pc = "cool", ![w].order = order, ![w].i = 1,
                           ![w].attempt = 0, ![w].setProc = TRUE,
                           ![w].st0 = status[wk[w].t], ![w].wrote = "processing"]
    /\ UNCHANGED <<retry, acct, ledger, now, bat>>
    /\ NoOut

\* waiting for the first task instead of all of them
GatherDone_FirstCompleted(b) == \E w \in TasksOf(b) : wk[w].pc = "done"

\* await asyncio.gather(*tasks): every task has returned
GatherDone(b) == \A w \in TasksOf(b) : wk[w].pc = "done"

\* asyncio.gather returned: the aggregate summary
BatchFinish(b) ==
    /\ bat[b].pc = "running"
    /\ GatherDone(b)
    /\ bat' = [bat EXCEPT ![b].pc = "done", ![b].ret = "ok"]
    /\ UNCHANGED <<status, retry, acct, ledger, now, wk>>
    /\ NoOut

\* ---------------------------------------- POST /api/reports/execute route
ApiInvoke(w, t, req) ==
    /\ Kind(w) = "api"
    /\ wk[w].pc = "idle"
    /\ LET accounts == ActiveOnly(req) IN
       IF accounts = {}
       THEN /\ wk' = [wk EXCEPT ![w] = [IdleWorker EXCEPT !.pc = "done", !.t = t,
                                        !.req = req, !.ret = "no_accounts",
                                        !.st0 = status[t]]]
            /\ UNCHANGED status
       ELSE /\ update_target_status(t, "processing")
            /\ wk' = [wk EXCEPT ![w] = [IdleWorker EXCEPT !.pc = "apicall", !.t = t,
                                        !.req = req, !.order = SortedSeq(accounts),
                                        !.i = 1, !.setProc = TRUE,
                                        !.st0 = status[t], !.wrote = "processing"]]
    /\ UNCHANGED <<retry, acct, ledger, now, bat>>
    /\ NoOut

\* result = await _execute_single_report(target, account)
ApiBeginCall(w) ==
    /\ wk[w].pc = "apicall"
    /\ wk' = [wk EXCEPT ![w] = BeginCall(@, wk[w].order[wk[w].i])]
    /\ RecordOut(wk[w].order[wk[w].i])
    /\ UNCHANGED <<status, retry, acct, ledger, now, bat>>

ApiEndCall(w, code, lat, d) ==
    /\ wk[w].pc = "apicalling"
    /\ now' = now + lat
    /\ LET r == wk[w]
           success == code # NoResponse /\ ApiSuccess(code)
       IN wk' = [wk EXCEPT ![w] = [EndTry(r, now + lat, code) EXCEPT
                                   !.pc = "apisleep",
                                   !.results = Append(@, success),
                                   !.wake = now + lat + d]]
    /\ UNCHANGED <<status, retry, acct, ledger, bat>>
    /\ NoOut

ApiWake(w) ==
    /\ wk[w].pc = "apisleep"
    /\ now >= wk[w].wake
    /\ wk' = [wk EXCEPT ![w] = IF @.i < Len(@.order)
                               THEN [@ EXCEPT !.pc = "apicall", !.i = @ + 1, !.cur = <<>>]
                               ELSE [@ EXCEPT !.pc = "apifinal"]]
    /\ UNCHANGED <<status, retry, acct, ledger, now, bat>>
    /\ NoOut

ApiFinal(w) ==
    /\ wk[w].pc = "apifinal"
    /\ increment_retry_and_set_status(wk[w].t, FinalStatus(wk[w].results))
    /\ wk' = [wk EXCEPT ![w].pc = "done", ![w].ret = "ok",
                         ![w].wrote = FinalStatus(wk[w].results)]
    /\ UNCHANGED <<acct, ledger, now, bat>>
    /\ NoOut

\* ------------------------------------------------------------------ time
\* the clock reaches the wake-up time of a sleeping worker
Tick ==
    /\ \E w \in Workers : /\ wk[w].pc \in Sleeping
                          /\ wk[w].wake > now
                          /\ now' = wk[w].wake
    /\ UNCHANGED <<status, retry, acct, ledger, wk, bat>>
    /\ NoOut

\* -------------------------------------------------------- specifications
\* account_ids of a request: None, or one stored account
ReqSets == {{}} \cup {{a} : a \in Accounts}

\* the ends of the ranges of the random waits
CooldownJitters == {0, CooldownJitter}
PenaltyJitters == {0, PenaltyJitter}

\* retry counters of stored targets when the model starts
InitRetries == {0, MAX_RETRY_COUNT}

\* requests received so far: single-target invocations and batch runs
Started ==
    Cardinality({w \in Workers : Kind(w) # "batch" /\ wk[w].pc # "idle"})
      + Cardinality({b \in Batches : bat[b].pc # "idle"})

\* no operation has been performed yet (ghost)
NoOp == [name |-> "", arg |-> 0, pre |-> {}, res |-> 0]

\* the rule table is empty and untouched
RulesIdle ==
    /\ rules = <<>>
    /\ lastOp = NoOp

\* no stored task, no job, scheduler not started
SchedIdle ==
    /\ tasks = <<>>
    /\ jobs = <<>>
    /\ schedulerRunning = FALSE

\* the standalone loop and a scheduled job that is not running
Loop == 0
Pollers == 0..MaxTaskId
NoCycle(pc) ==
    [pc |-> pc, ts |-> 0, code |-> 0, sent |-> FALSE, logged |-> FALSE, stored |-> FALSE]

NoPollOp == [name |-> "", id |-> 0, active |-> FALSE, wasRunning |-> FALSE, res |-> ""]

\* the standalone service is stopped, no job runs, nothing was ever replied to
PollIdle ==
    /\ autoreply_running = FALSE
    /\ starter = "idle"
    /\ last_msg_ts = 0
    /\ inbox = 0
    /\ cyc = [p \in Pollers |-> NoCycle(IF p = Loop THEN "off" ELSE "idle")]
    /\ sendCount = [m \in 1..MaxTs |-> 0]
    /\ overlap = FALSE
    /\ pollOp = NoPollOp

\* no account row is being edited, no client call, executor invocation or rule
\* match is under way, the caches are empty
NoAccount == <<>>
NoClient ==
    [pc |-> "idle", path |-> "", retries |-> 0, attempt |-> 0, calls |-> 0,
     slept |-> 0, last |-> 0, ret |-> 0, exhausted |-> FALSE]
NoExecutor ==
    [pc |-> "idle", type |-> "", code |-> 0, success |-> FALSE, audits |-> 0,
     okAudits |-> 0, platformOk |-> FALSE,
     raisedIn |-> "", hasResponse |-> FALSE]
NoMatcher == [pc |-> "idle", rows |-> <<>>, content |-> <<>>, reply |-> ""]
NoCache == [table |-> <<>>, entry |-> <<>>, lock |-> "", rd |-> <<>>, wr |-> <<>>]
NoWbi == [img_key |-> "", refreshed_at |-> 0, prev |-> 0, now |-> 0, lock |-> 0,
          cs |-> <<>>]

AuxIdle ==
    /\ account = NoAccount
    /\ client = NoClient
    /\ executor = NoExecutor
    /\ matcher = NoMatcher
    /\ cache = NoCache
    /\ wbi = NoWbi

NoPollCycle ==
    [pc |-> "idle", mode |-> "", ai |-> 0, si |-> 0, snap |-> <<>>, thread |-> <<>>,
     replied |-> <<>>, sends |-> {}, limited |-> {}, polled |-> {}, lateSend |-> FALSE]
NoQr == [rows |-> <<>>, procs |-> <<>>]
NoCheckAll == [running |-> FALSE, alive |-> 0, pc |-> "none", acc |-> <<>>,
               responses |-> <<>>, seen |-> <<>>, ends |-> <<>>]
NoDelay == [min_s |-> 0, max_s |-> 0, draw |-> 0, result |-> 0, called |-> FALSE]
NoLoops == [running |-> FALSE, task |-> 0, lp |-> <<>>, st |-> <<>>, old |-> {},
            last |-> [name |-> "", res |-> FALSE, wasRunning |-> FALSE],
            zombie |-> FALSE]
NoChannel == [clients |-> {}, dead |-> {}, pub |-> <<>>]

\* no poll cycle, QR login, check-all sweep, delay call or poll loop is under way
LateIdle ==
    /\ pollCycle = NoPollCycle
    /\ qr = NoQr
    /\ checkAll = NoCheckAll
    /\ delay = NoDelay
    /\ loops = NoLoops
    /\ channel = NoChannel

InitCommon ==
    /\ RulesIdle
    /\ SchedIdle
    /\ PollIdle
    /\ LateIdle
    /\ AuxIdle
    /\ ledger = [a \in Accounts |-> 0]
    /\ now = StartTime
    /\ lastOut = [a \in Accounts |-> -1]
    /\ minGap = [a \in Accounts |-> -1]

IdleBatch == [pc |-> "idle", targets |-> {}, accounts |-> {}, ret |-> ""]

DispatchWorkers ==
    {<<"single", 1>>, <<"api", 1>>}
      \cup {<<"batch", b, t>> : b \in 1..NumBatches, t \in 1..NumTargets}

\* the dispatcher after start-up: no target is processing, every worker is idle
Init ==
    /\ status = [t \in 1..NumTargets |-> "pending"]
    /\ retry \in [1..NumTargets -> InitRetries]
    /\ acct \in {f \in [Accounts -> AcctStates] : f[1] = "valid"}
    /\ wk = [w \in DispatchWorkers |-> IdleWorker]
    /\ bat = [b \in 1..NumBatches |-> IdleBatch]
    /\ InitCommon

\* a step of an account sweep, the responses and random draws taken from the given sets
SweepStep(w, codes, cjs, pjs, hds, lats) ==
    \/ \E j \in cjs : CheckCooldown(w, j)
    \/ Wake(w)
    \/ \E code \in codes, lat \in lats, pj \in pjs, hd \in hds :
          EndCall(w, code, lat, pj, hd)
    \/ Final(w)

SingleStep(w, cap) ==
    \/ Started < cap /\ \E t \in Targets, req \in ReqSets : SingleInvoke(w, t, req)
    \/ GetTarget(w)
    \/ CapFail(w)
    \/ SelectAccounts(w)

ApiStep(w, cap, codes, ds, lats) ==
    \/ Started < cap /\ \E t \in Targets, req \in ReqSets : ApiInvoke(w, t, req)
    \/ ApiBeginCall(w)
    \/ \E code \in codes, lat \in lats, d \in ds : ApiEndCall(w, code, lat, d)
    \/ ApiWake(w)
    \/ ApiFinal(w)

BatchStep(cap, idsets) ==
    \/ Started < cap /\ \E b \in Batches, ids \in idsets : BatchStart(b, ids)
    \/ \E w \in Workers : Acquire(w)
    \/ \E b \in Batches : BatchFinish(b)

\* ---- Spec: one request at a time, every response code, both ends of every wait
Next ==
    \/ /\ \E w \in Workers : SingleStep(w, MaxRequests)
       /\ UNCHANGED serviceVars
    \/ /\ \E w \in Workers : ApiStep(w, MaxRequests, Outcomes, ApiDelays, {0})
       /\ UNCHANGED serviceVars
    \/ /\ \E w \in Workers :
             SweepStep(w, Outcomes, CooldownJitters, PenaltyJitters, HumanDelays, {0})
       /\ UNCHANGED serviceVars
    \/ /\ BatchStep(MaxRequests, {{t} : t \in Targets})
       /\ UNCHANGED serviceVars
    \/ /\ Tick
       /\ UNCHANGED serviceVars

Spec == Init /\ [][Next]_vars

\* ---- SpecRace: concurrent requests over the same targets and accounts
RaceOutcomes == {OkCode, RateLimitCode, FailCode}

RaceNext ==
    \/ /\ \E w \in Workers : SingleStep(w, RaceRequests)
       /\ UNCHANGED serviceVars
    \/ /\ \E w \in Workers : ApiStep(w, RaceRequests, RaceOutcomes, {MIN_DELAY}, {0})
       /\ UNCHANGED serviceVars
    \/ /\ \E w \in Workers :
             SweepStep(w, RaceOutcomes, {0}, {0}, {MIN_DELAY}, {0})
       /\ UNCHANGED serviceVars
    \/ /\ BatchStep(RaceRequests, {{}, Targets})
       /\ UNCHANGED serviceVars
    \/ /\ Tick
       /\ UNCHANGED serviceVars

\* one stored target, one usable account, two scheduled batch jobs
RaceWorkers ==
    {<<"single", 1>>, <<"api", 1>>, <<"batch", 1, 1>>, <<"batch", 2, 1>>}

InitRace ==
    /\ status = [t \in {1} |-> "pending"]
    /\ retry = [t \in {1} |-> 0]
    /\ acct = [a \in Accounts |-> IF a = 1 THEN "valid" ELSE "inactive"]
    /\ wk = [w \in RaceWorkers |-> IdleWorker]
    /\ bat = [b \in {1, 2} |-> IdleBatch]
    /\ InitCommon

SpecRace == InitRace /\ [][RaceNext]_vars

\* ---- SpecLifecycle: requests and edits of the stored targets
\* PUT /api/targets/{id}: update_target writes every allowed field that is
\* given, the status among them
update_target(t, st) ==
    /\ st \in VALID_STATUSES
    /\ status' = [status EXCEPT ![t] = st]
    /\ UNCHANGED <<retry, acct, ledger, now, wk, bat>>
    /\ NoOut

LifecycleWorkers == {<<"single", 1>>, <<"api", 1>>, <<"batch", 1, 1>>}

InitLifecycle ==
    /\ status = [t \in {1} |-> "pending"]
    /\ retry = [t \in {1} |-> 0]
    /\ acct = [a \in Accounts |-> IF a = 1 THEN "valid" ELSE "inactive"]
    /\ wk = [w \in LifecycleWorkers |-> IdleWorker]
    /\ bat = [b \in {1} |-> IdleBatch]
    /\ InitCommon

LifecycleNext ==
    \/ /\ \E w \in Workers : SingleStep(w, RaceRequests)
       /\ UNCHANGED serviceVars
    \/ /\ \E w \in Workers : ApiStep(w, RaceRequests, {OkCode, FailCode}, {MIN_DELAY}, {0})
       /\ UNCHANGED serviceVars
    \/ /\ \E w \in Workers :
             SweepStep(w, {OkCode, FailCode}, {0}, {0}, {MIN_DELAY}, {0})
       /\ UNCHANGED serviceVars
    \/ /\ BatchStep(RaceRequests, {{}, Targets})
       /\ UNCHANGED serviceVars
    \/ /\ \E t \in Targets, st \in VALID_STATUSES : update_target(t, st)
       /\ UNCHANGED serviceVars
    \/ /\ Tick
       /\ UNCHANGED serviceVars

SpecLifecycle == InitLifecycle /\ [][LifecycleNext]_vars

\* ---- SpecCrash: one request whose executor call may raise
\* an exception leaves execute_single_report / _execute_single_report (their
\* except branches await the INSERT and the broadcast unprotected); neither
\* execute_report_for_target nor execute_report has a try block, so it leaves
\* the dispatcher too: the invocation ends there and writes nothing
Escape(w) ==
    /\ wk[w].pc \in {"calling", "apicalling"}
    /\ wk' = [wk EXCEPT ![w].pc = "done", ![w].ret = "exception"]
    /\ UNCHANGED <<status, retry, acct, ledger, now, bat>>
    /\ NoOut

CrashWorkers == {<<"single", 1>>, <<"api", 1>>}

InitCrash ==
    /\ status = [t \in 1..NumTargets |-> "pending"]
    /\ retry \in [1..NumTargets -> InitRetries]
    /\ acct \in {f \in [Accounts -> AcctStates] : f[1] = "valid"}
    /\ wk = [w \in CrashWorkers |-> IdleWorker]
    /\ bat = <<>>
    /\ InitCommon

CrashNext ==
    \/ /\ \E w \in Workers : SingleStep(w, MaxRequests)
       /\ UNCHANGED serviceVars
    \/ /\ \E w \in Workers : ApiStep(w, MaxRequests, RaceOutcomes, {MIN_DELAY}, {0})
       /\ UNCHANGED serviceVars
    \/ /\ \E w \in Workers :
             SweepStep(w, RaceOutcomes, {0}, {0}, {MIN_DELAY}, {0})
       /\ UNCHANGED serviceVars
    \/ /\ \E w \in Workers : Escape(w)
       /\ UNCHANGED serviceVars
    \/ /\ Tick
       /\ UNCHANGED serviceVars

SpecCrash == InitCrash /\ [][CrashNext]_vars

\* ---- SpecFanout: one scheduled batch run over one target more than the
\* semaphore has permits, every task using the same single account
FanoutTargets == 1..(SemaphoreCapacity + 1)

InitFanout ==
    /\ status = [t \in FanoutTargets |-> "pending"]
    /\ retry = [t \in FanoutTargets |-> 0]
    /\ acct = [a \in Accounts |-> IF a = 1 THEN "valid" ELSE "inactive"]
    /\ wk = [w \in {<<"batch", 1, t>> : t \in FanoutTargets} |-> IdleWorker]
    /\ bat = [b \in {1} |-> IdleBatch]
    /\ InitCommon

\* the clock advances when every task is blocked on a timer or on the semaphore,
\* to the first timer that is due
QuietTick ==
    /\ \A w \in Workers : \/ wk[w].pc \in {"idle", "sem", "done"}
                           \/ (wk[w].pc \in Sleeping /\ wk[w].wake > now)
    /\ \E w \in Workers :
          /\ wk[w].pc \in Sleeping
          /\ \A v \in Workers : wk[v].pc \in Sleeping => wk[v].wake >= wk[w].wake
          /\ now' = wk[w].wake
    /\ UNCHANGED <<status, retry, acct, ledger, wk, bat>>
    /\ NoOut

FanoutNext ==
    \/ /\ BatchStep(1, {{}})
       /\ UNCHANGED serviceVars
    \/ /\ \E w \in Workers : SweepStep(w, {OkCode, FailCode}, {0}, {0}, {MIN_DELAY}, {0})
       /\ UNCHANGED serviceVars
    \/ /\ QuietTick
       /\ UNCHANGED serviceVars

SpecFanout == InitFanout /\ [][FanoutNext]_vars

\* the event loop runs every ready task and every timer fires
FairFanout == SpecFanout /\ WF_vars(FanoutNext)

\* ------------------------------------------------ auto-reply rule table
\* keyword IS NULL marks the default reply
NullKeyword == "<NULL>"

Keywords == {"hello"}
Responses == {"reply A", "reply B"}

\* ids of the stored rows
RuleIds == DOMAIN rules

\* lastrowid of an INSERT: one more than the largest stored rowid
NextRowId(rs) ==
    IF DOMAIN rs = {} THEN 1
    ELSE (CHOOSE i \in DOMAIN rs : \A j \in DOMAIN rs : j <= i) + 1

\* INSERT INTO autoreply_config (keyword, response, priority): is_active defaults to 1
InsertRule(rs, kw, response, priority) ==
    LET n == NextRowId(rs) IN
    [i \in DOMAIN rs \cup {n} |->
        IF i = n THEN [keyword |-> kw, response |-> response,
                       priority |-> priority, is_active |-> TRUE]
        ELSE rs[i]]

\* DELETE FROM autoreply_config WHERE id IN ids
DeleteRules(rs, ids) == [i \in DOMAIN rs \ ids |-> rs[i]]

\* a query for the default rows written with "keyword = NULL", which matches no row
ExistingDefaults_EqualsNull(rs) == {}

\* SELECT id FROM autoreply_config WHERE keyword IS NULL ORDER BY id ASC
ExistingDefaults(rs) == {i \in DOMAIN rs : rs[i].keyword = NullKeyword}

\* the smallest id of a non-empty set of ids (existing[0])
FirstId(ids) == CHOOSE i \in ids : \A j \in ids : i <= j

\* upsert_default_reply: one transaction under the connection lock
UpsertResult(rs, response, priority) ==
    LET existing == ExistingDefaults(rs) IN
    IF existing # {}
    THEN DeleteRules([rs EXCEPT ![FirstId(existing)] =
                         [@ EXCEPT !.response = response, !.priority = priority,
                                   !.is_active = TRUE]],
                     existing \ {FirstId(existing)})
    ELSE InsertRule(rs, NullKeyword, response, priority)

upsert_default_reply(response, priority) ==
    /\ ExistingDefaults(rules) # {} \/ NextRowId(rules) <= MaxRuleId
    /\ rules' = UpsertResult(rules, response, priority)
    /\ lastOp' = [name |-> "upsert_default_reply", arg |-> response,
                  pre |-> {i \in DOMAIN rules : rules[i].keyword = NullKeyword},
                  res |-> IF ExistingDefaults(rules) # {}
                          THEN FirstId(ExistingDefaults(rules)) ELSE NextRowId(rules)]

\* autoreply_service.create_config(keyword, response, priority=0)
create_config(kw, response) ==
    IF kw = NullKeyword
    THEN upsert_default_reply(response, 0)
    ELSE /\ NextRowId(rules) <= MaxRuleId
         /\ rules' = InsertRule(rules, kw, response, 0)
         /\ lastOp' = [name |-> "create_config", arg |-> response, pre |-> {},
                       res |-> NextRowId(rules)]

\* POST /api/autoreply/config: the row is inserted as given
create_autoreply_config(kw, response) ==
    /\ NextRowId(rules) <= MaxRuleId
    /\ rules' = InsertRule(rules, kw, response, 0)
    /\ lastOp' = [name |-> "create_autoreply_config", arg |-> response, pre |-> {},
                  res |-> NextRowId(rules)]

\* update_config / PUT /api/autoreply/config/{id}: only fields that are not None
\* are written, so a keyword is never set to NULL
update_config(id, field, value) ==
    /\ id \in DOMAIN rules
    /\ rules' = [rules EXCEPT ![id] =
                    IF field = "keyword" THEN [@ EXCEPT !.keyword = value]
                    ELSE IF field = "response" THEN [@ EXCEPT !.response = value]
                    ELSE [@ EXCEPT !.is_active = value]]
    /\ lastOp' = [name |-> "update_config", arg |-> value, pre |-> {}, res |-> id]

\* delete_config / DELETE /api/autoreply/config/{id}
delete_config(id) ==
    /\ id \in DOMAIN rules
    /\ rules' = DeleteRules(rules, {id})
    /\ lastOp' = [name |-> "delete_config", arg |-> "", pre |-> {}, res |-> id]

\* the dispatcher has no targets and no workers
DispatchIdle ==
    /\ status = <<>>
    /\ retry = <<>>
    /\ acct = [a \in Accounts |-> "valid"]
    /\ wk = <<>>
    /\ bat = <<>>
    /\ ledger = [a \in Accounts |-> 0]
    /\ now = StartTime
    /\ lastOut = [a \in Accounts |-> -1]
    /\ minGap = [a \in Accounts |-> -1]

\* ---- SpecRules: rule operations through the service and through the routes
InitRules ==
    /\ DispatchIdle
    /\ RulesIdle
    /\ SchedIdle
    /\ PollIdle
    /\ LateIdle
    /\ AuxIdle

RulesNext ==
    \/ /\ \E r \in Responses : upsert_default_reply(r, -1)
       /\ UNCHANGED <<dispatchVars, schedVars, pollVars, auxVars>>
    \/ /\ \E kw \in Keywords \cup {NullKeyword}, r \in Responses : create_config(kw, r)
       /\ UNCHANGED <<dispatchVars, schedVars, pollVars, auxVars>>
    \/ /\ \E kw \in Keywords \cup {NullKeyword}, r \in Responses :
             create_autoreply_config(kw, r)
       /\ UNCHANGED <<dispatchVars, schedVars, pollVars, auxVars>>
    \/ /\ \E id \in RuleIds :
             \/ \E kw \in Keywords : update_config(id, "keyword", kw)
             \/ \E r \in Responses : update_config(id, "response", r)
             \/ \E b \in BOOLEAN : update_config(id, "is_active", b)
       /\ UNCHANGED <<dispatchVars, schedVars, pollVars, auxVars>>
    \/ /\ \E id \in RuleIds : delete_config(id)
       /\ UNCHANGED <<dispatchVars, schedVars, pollVars, auxVars>>

SpecRules == InitRules /\ [][RulesNext]_vars

\* ---------------------------------------------------------- scheduler
\* column values of scheduled_tasks: NULL, a crontab APScheduler accepts, one it
\* rejects; NULL, an interval below the floor, a regular interval
CronNull == "<NULL>"
ValidCron == "*/5 * * * *"
BadCron == "every day"
CronUnset == "<unset>"
CronValues == {CronNull, ValidCron, BadCron}
IntervalValues == {NoInterval, ZeroInterval, ShortInterval, LongInterval}
TaskTypes == {"report_batch", "autoreply_poll"}

TaskIds == DOMAIN tasks

\* CronTrigger.from_crontab(c) does not raise
CronParses(c) == c = ValidCron

\* ScheduledTaskBase: validate_cron, Field(ge=10, le=2592000), validate_scheduling
ScheduledTaskBaseValid(cron, interval) ==
    /\ cron # CronNull => CronParses(cron)
    /\ interval # NoInterval => (interval >= 10 /\ interval <= MaxIntervalSeconds)
    /\ ~(cron = CronNull /\ interval = NoInterval)
    /\ ~(cron # CronNull /\ interval # NoInterval)

\* _normalize_trigger_values: <<cron_value, interval_value, changed>>
normalize_trigger_values(cron, interval) ==
    LET cron_valid == cron # CronNull /\ CronParses(cron)
        cron_value == IF cron_valid THEN cron ELSE CronNull
        floored == IF interval # NoInterval /\ interval < MIN_TASK_INTERVAL_SECONDS
                   THEN MIN_TASK_INTERVAL_SECONDS ELSE interval
        interval_value == IF cron_valid THEN NoInterval ELSE floored
    IN IF ~cron_valid /\ floored = NoInterval
       THEN <<cron_value, floored, TRUE>>
       ELSE <<cron_value, interval_value,
              cron_value # cron \/ interval_value # interval>>

\* repair_invalid_task_triggers applied to one row
RepairRow(row) ==
    LET n == normalize_trigger_values(row.cron_expression, row.interval_seconds) IN
    IF ~n[3] THEN row
    ELSE IF n[1] = CronNull /\ n[2] = NoInterval
         THEN [row EXCEPT !.is_active = FALSE]
         ELSE [row EXCEPT !.cron_expression = n[1], !.interval_seconds = n[2]]

\* _register_job builds a trigger from the row, or returns without one
HasTrigger(row) ==
    IF row.cron_expression # CronNull
    THEN CronParses(row.cron_expression)
    ELSE row.interval_seconds # NoInterval /\ row.interval_seconds # 0

JobOf(row) ==
    IF row.cron_expression # CronNull
    THEN [func |-> row.task_type, trigger |-> "cron",
          cron |-> row.cron_expression, seconds |-> NoInterval]
    ELSE [func |-> row.task_type, trigger |-> "interval",
          cron |-> CronNull, seconds |-> row.interval_seconds]

\* _register_job(task_row): the job is replaced when a trigger was built;
\* otherwise the function returns and the registered jobs stay as they were
register_job(js, id, row) ==
    IF HasTrigger(row)
    THEN [i \in DOMAIN js \cup {id} |-> IF i = id THEN JobOf(row) ELSE js[i]]
    ELSE js

\* _unregister_job(task_id)
unregister_job(js, id) == [i \in DOMAIN js \ {id} |-> js[i]]

\* lastrowid of INSERT INTO scheduled_tasks
NextTaskId ==
    IF TaskIds = {} THEN 1
    ELSE (CHOOSE i \in TaskIds : \A j \in TaskIds : j <= i) + 1

\* ghost: the operation that just returned, and the tables before it
TaskOp(name, id, res) ==
    lastOp' = [name |-> name, arg |-> id, pre |-> <<tasks, jobs>>, res |-> res]

\* start_scheduler: repair the stored rows, register the active ones
start_scheduler ==
    /\ ~schedulerRunning
    /\ schedulerRunning' = TRUE
    /\ LET repaired == [i \in TaskIds |-> RepairRow(tasks[i])]
           active == {i \in TaskIds : repaired[i].is_active /\ HasTrigger(repaired[i])}
       IN /\ tasks' = repaired
          /\ jobs' = [i \in active |-> JobOf(repaired[i])]
    /\ TaskOp("start_scheduler", 0, "ok")

\* create_task(name, task_type, cron_expression, interval_seconds)
create_task(type, cron, interval) ==
    /\ schedulerRunning
    /\ NextTaskId <= MaxTaskId
    /\ IF ~ScheduledTaskBaseValid(cron, interval)
       THEN /\ UNCHANGED <<tasks, jobs>>
            /\ TaskOp("create_task", NextTaskId, "raised")
       ELSE LET id == NextTaskId
                row == [task_type |-> type, cron_expression |-> cron,
                        interval_seconds |-> interval, is_active |-> TRUE]
            IN /\ tasks' = [i \in TaskIds \cup {id} |-> IF i = id THEN row ELSE tasks[i]]
               /\ jobs' = register_job(jobs, id, row)
               /\ TaskOp("create_task", id, "ok")
    /\ UNCHANGED schedulerRunning

\* the request body of update_task: a value for some of the columns (a column
\* that is absent from the body is marked unset)
UpdateFields ==
    {f \in [cron_expression : CronValues \cup {CronUnset},
            interval_seconds : IntervalValues \cup {IntervalUnset},
            is_active : {"unset", "true", "false"}] :
        ~(f.cron_expression = CronUnset /\ f.interval_seconds = IntervalUnset
          /\ f.is_active = "unset")}

\* update_task: "updating one trigger clears the other"
ModeSwitch(f) ==
    LET hasC == f.cron_expression # CronUnset
        hasI == f.interval_seconds # IntervalUnset
    IN [f EXCEPT
          !.interval_seconds = IF hasC /\ ~hasI /\ f.cron_expression # CronNull
                               THEN NoInterval ELSE @,
          !.cron_expression = IF hasI /\ ~hasC /\ f.interval_seconds # NoInterval
                              THEN CronNull ELSE @]

\* validation_row = dict(current_row); validation_row.update(data)
Merged(row, data) ==
    [row EXCEPT
       !.cron_expression = IF data.cron_expression # CronUnset
                           THEN data.cron_expression ELSE @,
       !.interval_seconds = IF data.interval_seconds # IntervalUnset
                            THEN data.interval_seconds ELSE @,
       !.is_active = IF data.is_active # "unset" THEN data.is_active = "true" ELSE @]

\* H-2: the trigger of an active row is validated before the UPDATE
PreValidated(row) == row.is_active => HasTrigger(row)

\* update_task(task_id, fields)
update_task(id, fields) ==
    /\ schedulerRunning
    /\ id \in TaskIds
    /\ LET data == ModeSwitch(fields)
           row == Merged(tasks[id], data)
           touches == data.cron_expression # CronUnset
                        \/ data.interval_seconds # IntervalUnset
       IN IF \/ (touches /\ ~ScheduledTaskBaseValid(row.cron_expression,
                                                    row.interval_seconds))
             \/ ~PreValidated(row)
          THEN /\ UNCHANGED <<tasks, jobs>>
               /\ TaskOp("update_task", id, "raised")
          ELSE /\ tasks' = [tasks EXCEPT ![id] = row]
               /\ jobs' = IF row.is_active THEN register_job(jobs, id, row)
                          ELSE unregister_job(jobs, id)
               /\ TaskOp("update_task", id, "ok")
    /\ UNCHANGED schedulerRunning

\* toggle_task(task_id)
toggle_task(id) ==
    /\ schedulerRunning
    /\ id \in TaskIds
    /\ LET row == [tasks[id] EXCEPT !.is_active = ~@] IN
       /\ tasks' = [tasks EXCEPT ![id] = row]
       /\ jobs' = IF row.is_active THEN register_job(jobs, id, row)
                  ELSE unregister_job(jobs, id)
    /\ TaskOp("toggle_task", id, "ok")
    /\ UNCHANGED schedulerRunning

\* delete_task(task_id)
delete_task(id) ==
    /\ schedulerRunning
    /\ id \in TaskIds
    /\ jobs' = unregister_job(jobs, id)
    /\ tasks' = [i \in TaskIds \ {id} |-> tasks[i]]
    /\ TaskOp("delete_task", id, "ok")
    /\ UNCHANGED schedulerRunning

\* ---- SpecSched: a stored row of any shape, start-up, then task operations
StoredRows ==
    [task_type : {"report_batch"}, cron_expression : CronValues,
     interval_seconds : IntervalValues, is_active : BOOLEAN]

InitSched ==
    /\ DispatchIdle
    /\ RulesIdle
    /\ PollIdle
    /\ LateIdle
    /\ AuxIdle
    /\ tasks \in [{1} -> StoredRows]
    /\ jobs = <<>>
    /\ schedulerRunning = FALSE

SchedNext ==
    \/ /\ start_scheduler
       /\ UNCHANGED <<dispatchVars, rules, pollVars, auxVars>>
    \/ /\ \E type \in TaskTypes, cron \in CronValues, interval \in IntervalValues :
             create_task(type, cron, interval)
       /\ UNCHANGED <<dispatchVars, rules, pollVars, auxVars>>
    \/ /\ \E id \in TaskIds, f \in UpdateFields : update_task(id, f)
       /\ UNCHANGED <<dispatchVars, rules, pollVars, auxVars>>
    \/ /\ \E id \in TaskIds : toggle_task(id)
       /\ UNCHANGED <<dispatchVars, rules, pollVars, auxVars>>
    \/ /\ \E id \in TaskIds : delete_task(id)
       /\ UNCHANGED <<dispatchVars, rules, pollVars, auxVars>>

SpecSched == InitSched /\ [][SchedNext]_vars

\* --------------------------------------------------------- inbox poller
\* a poll cycle is between its first query and its return
CyclePcs == {"sessions", "state", "send", "log", "upsert"}
InCycle(c) == c.pc \in CyclePcs

\* the poller waits for its next cycle: a scheduled job that is not running, the
\* standalone loop in asyncio.sleep(poll_interval)
Rest == {"idle", "ready"}

\* ghost: two poll cycles are in progress in the new state
SetCyc(c) ==
    /\ cyc' = c
    /\ overlap' = (overlap \/ Cardinality({p \in Pollers : InCycle(c[p])}) >= 2)

\* run_autoreply_poll_cycle returns to its caller: its locals are gone; what it
\* did for the message stays visible (the ghosts sent, logged, stored)
EndCycle(p, c) ==
    [c EXCEPT !.pc = IF p = Loop THEN "ready" ELSE "idle", !.ts = 0, !.code = 0]

\* the guard of start_service observes no active scheduled task
has_active_autoreply_poll_task_None(ts) == FALSE

\* has_active_autoreply_poll_task()
has_active_autoreply_poll_task(ts) ==
    \E id \in DOMAIN ts : ts[id].task_type = "autoreply_poll" /\ ts[id].is_active

\* is_running()
is_running == autoreply_running

\* ghost: what start_service, stop_service or a job firing saw and returned
PollOp(name, id, res) ==
    pollOp' = [name |-> name, id |-> id,
               active |-> \E t \in TaskIds : tasks[t].task_type = "autoreply_poll"
                                              /\ tasks[t].is_active,
               wasRunning |-> autoreply_running, res |-> res]

\* _autoreply_running = True; _autoreply_task = asyncio.create_task(poll_loop())
StartLoop ==
    /\ autoreply_running' = TRUE
    /\ SetCyc([cyc EXCEPT ![Loop] = NoCycle("ready")])

\* start_service(interval): with the default interval nothing is awaited between
\* the guard and the flag; another interval is first stored with set_config
start_service(defaultInterval) ==
    /\ starter = "idle"
    /\ IF autoreply_running \/ has_active_autoreply_poll_task(tasks)
       THEN /\ PollOp("start_service", Loop, "False")
            /\ UNCHANGED <<autoreply_running, starter, cyc, overlap>>
       ELSE IF defaultInterval
            THEN /\ PollOp("start_service", Loop, "True")
                 /\ StartLoop
                 /\ UNCHANGED starter
            ELSE /\ PollOp("start_service", Loop, "set_config")
                 /\ starter' = "set_config"
                 /\ UNCHANGED <<autoreply_running, cyc, overlap>>
    /\ UNCHANGED <<last_msg_ts, inbox, sendCount>>

\* start_service resumes after set_config
StartCommit ==
    /\ starter = "set_config"
    /\ starter' = "idle"
    /\ StartLoop
    /\ UNCHANGED pollOp
    /\ UNCHANGED <<last_msg_ts, inbox, sendCount>>

\* stop_service(): the flag is cleared and the loop task is cancelled
stop_service ==
    /\ IF ~autoreply_running
       THEN UNCHANGED <<autoreply_running, cyc, overlap, pollOp>>
       ELSE /\ UNCHANGED pollOp
            /\ autoreply_running' = FALSE
            /\ SetCyc([cyc EXCEPT ![Loop].pc = "off"])
    /\ UNCHANGED <<starter, last_msg_ts, inbox, sendCount>>

\* poll_loop: the next iteration of the standalone loop starts a cycle
LoopIterate ==
    /\ cyc[Loop].pc = "ready"
    /\ autoreply_running
    /\ SetCyc([cyc EXCEPT ![Loop] = NoCycle("sessions")])
    /\ UNCHANGED <<autoreply_running, starter, last_msg_ts, inbox,
                   sendCount, pollOp>>

\* _run_autoreply_poll(task_id): the registered job fires (max_instances = 1)
Fire(id) ==
    /\ id \in DOMAIN jobs
    /\ jobs[id].func = "autoreply_poll"
    /\ cyc[id].pc = "idle"
    /\ IF is_running
       THEN /\ PollOp("fire", id, "skipped")
            /\ UNCHANGED <<cyc, overlap>>
       ELSE /\ PollOp("fire", id, "polling")
            /\ SetCyc([cyc EXCEPT ![id] = NoCycle("sessions")])
    /\ UNCHANGED <<autoreply_running, starter, last_msg_ts, inbox,
                   sendCount>>

\* client.get_recent_sessions(): a snapshot of the session's last message
GetSessions(p, ok) ==
    /\ cyc[p].pc = "sessions"
    /\ SetCyc(IF ok THEN [cyc EXCEPT ![p].pc = "state", ![p].ts = inbox]
                    ELSE [cyc EXCEPT ![p] = EndCycle(p, @)])
    /\ UNCHANGED <<autoreply_running, starter, last_msg_ts, inbox,
                   sendCount, pollOp>>

\* SELECT last_msg_ts FROM autoreply_state; if msg_ts <= last_replied_ts: continue
ReadState(p) ==
    /\ cyc[p].pc = "state"
    /\ SetCyc(IF cyc[p].ts <= last_msg_ts
              THEN [cyc EXCEPT ![p] = EndCycle(p, @)]
              ELSE [cyc EXCEPT ![p].pc = "send"])
    /\ UNCHANGED <<autoreply_running, starter, last_msg_ts, inbox,
                   sendCount, pollOp>>

SendCodes == {OkCode, FailCode, RateLimitedSend}

\* client.send_private_message returns a response
Send(p, code) ==
    /\ cyc[p].pc = "send"
    /\ sendCount[cyc[p].ts] < MaxSends
    /\ sendCount' = [sendCount EXCEPT ![cyc[p].ts] = @ + 1]
    /\ SetCyc([cyc EXCEPT ![p].pc = "log", ![p].code = code, ![p].sent = TRUE])
    /\ UNCHANGED <<autoreply_running, starter, last_msg_ts, inbox, pollOp>>

\* client.send_private_message raises (resp.json() on a body that is not JSON,
\* an httpx error other than the three _request retries): the except of the
\* account loop ends the account
SendRaises(p) ==
    /\ cyc[p].pc = "send"
    /\ sendCount[cyc[p].ts] < MaxSends
    /\ sendCount' = [sendCount EXCEPT ![cyc[p].ts] = @ + 1]
    /\ SetCyc([cyc EXCEPT ![p] = EndCycle(p, [@ EXCEPT !.sent = TRUE])])
    /\ UNCHANGED <<autoreply_running, starter, last_msg_ts, inbox, pollOp>>

\* INSERT INTO report_logs (... 'autoreply' ...)
Log(p) ==
    /\ cyc[p].pc = "log"
    /\ SetCyc([cyc EXCEPT ![p].pc = "upsert", ![p].logged = TRUE])
    /\ UNCHANGED <<autoreply_running, starter, last_msg_ts, inbox, sendCount, pollOp>>

\* INSERT INTO autoreply_state ... DO UPDATE SET last_msg_ts = excluded.last_msg_ts
Upsert(p) ==
    /\ cyc[p].pc = "upsert"
    /\ last_msg_ts' = cyc[p].ts
    /\ SetCyc([cyc EXCEPT ![p] = EndCycle(p, [@ EXCEPT !.stored = TRUE])])
    /\ UNCHANGED <<autoreply_running, starter, inbox, sendCount, pollOp>>

\* the peer sends another message
NewMessage ==
    /\ inbox < MaxTs
    /\ inbox' = inbox + 1
    /\ UNCHANGED <<autoreply_running, starter, last_msg_ts, cyc,
                   sendCount, overlap, pollOp>>

\* ---- SpecPoll: the scheduler is started with no task stored; the standalone
\* service is started and stopped, autoreply_poll tasks are created, toggled
\* and deleted, jobs fire, the peer writes
InitPoll ==
    /\ DispatchIdle
    /\ RulesIdle
    /\ PollIdle
    /\ LateIdle
    /\ AuxIdle
    /\ tasks = <<>>
    /\ jobs = <<>>
    /\ schedulerRunning = TRUE

PollNext ==
    \/ /\ \E d \in BOOLEAN : start_service(d)
       /\ UNCHANGED <<dispatchVars, ruleVars, schedVars, auxVars>>
    \/ /\ StartCommit
       /\ UNCHANGED <<dispatchVars, ruleVars, schedVars, auxVars>>
    \/ /\ stop_service
       /\ UNCHANGED <<dispatchVars, ruleVars, schedVars, auxVars>>
    \/ /\ LoopIterate
       /\ UNCHANGED <<dispatchVars, ruleVars, schedVars, auxVars>>
    \/ /\ \E id \in TaskIds : Fire(id)
       /\ UNCHANGED <<dispatchVars, ruleVars, schedVars, auxVars>>
    \/ /\ \E p \in Pollers, ok \in BOOLEAN : GetSessions(p, ok)
       /\ UNCHANGED <<dispatchVars, ruleVars, schedVars, auxVars>>
    \/ /\ \E p \in Pollers : ReadState(p)
       /\ UNCHANGED <<dispatchVars, ruleVars, schedVars, auxVars>>
    \/ /\ \E p \in Pollers, code \in SendCodes : Send(p, code)
       /\ UNCHANGED <<dispatchVars, ruleVars, schedVars, auxVars>>
    \/ /\ \E p \in Pollers : SendRaises(p)
       /\ UNCHANGED <<dispatchVars, ruleVars, schedVars, auxVars>>
    \/ /\ \E p \in Pollers : Log(p)
       /\ UNCHANGED <<dispatchVars, ruleVars, schedVars, auxVars>>
    \/ /\ \E p \in Pollers : Upsert(p)
       /\ UNCHANGED <<dispatchVars, ruleVars, schedVars, auxVars>>
    \/ /\ NewMessage
       /\ UNCHANGED <<dispatchVars, ruleVars, schedVars, auxVars>>
    \/ /\ Cardinality(TaskIds) < MaxPollTasks
       /\ create_task("autoreply_poll", CronNull, LongInterval)
       /\ UNCHANGED <<dispatchVars, rules, pollVars, auxVars>>
    \/ /\ \E id \in TaskIds : toggle_task(id)
       /\ UNCHANGED <<dispatchVars, rules, pollVars, auxVars>>
    \/ /\ \E id \in TaskIds : delete_task(id)
       /\ UNCHANGED <<dispatchVars, rules, pollVars, auxVars>>

SpecPoll == InitPoll /\ [][PollNext]_vars

\* ------------------------------------------------------ process start-up
\* the stuck row keeps its status
RecoverStatus_Keep(st) == st

\* UPDATE targets SET status = 'pending' WHERE status = 'processing'
RecoverStatus(st) == IF st = "processing" THEN "pending" ELSE st

\* lifespan, before the scheduler starts: recover the targets a previous process
\* left in processing
lifespan_recovery ==
    /\ lastOp.name = ""
    /\ ~schedulerRunning
    /\ status' = [t \in Targets |-> RecoverStatus(status[t])]
    /\ lastOp' = [name |-> "lifespan_recovery", arg |-> 0,
                  pre |-> <<status, retry>>, res |-> "ok"]
    /\ UNCHANGED <<retry, acct, ledger, now, wk, bat, lastOut, minGap>>

\* ---- SpecStartup: the tables a previous process left behind, then lifespan
InitStartup ==
    /\ status \in [1..NumTargets -> VALID_STATUSES]
    /\ retry \in [1..NumTargets -> InitRetries]
    /\ acct = [a \in Accounts |-> "valid"]
    /\ wk = <<>>
    /\ bat = <<>>
    /\ InitCommon

StartupNext ==
    \/ /\ lifespan_recovery
       /\ UNCHANGED <<rules, schedVars, pollVars, auxVars>>
    \/ /\ lastOp.name = "lifespan_recovery"
       /\ start_scheduler
       /\ UNCHANGED <<dispatchVars, rules, pollVars, auxVars>>

SpecStartup == InitStartup /\ [][StartupNext]_vars

\* --------------------------------------------------------------- accounts
\* the columns update_account may write (group_tag and is_active behave as name
\* does and are left out) and the credentials among them
ALLOWED_UPDATE_FIELDS ==
    {"name", "sessdata", "bili_jct", "buvid3", "buvid4", "dedeuserid_ckmd5",
     "refresh_token"}
CredentialFields == ALLOWED_UPDATE_FIELDS \ {"name"}
ColumnValues == {"old", "new"}
Absent == "<absent>"

\* field in STATUS_RESET_FIELDS or field.startswith("buvid")
ResetsStatus(field) == field \in {"sessdata", "bili_jct", "buvid3", "buvid4"}

\* the bodies of PUT /accounts/{id}: some columns, the others absent (None)
UpdateRequests ==
    {f \in [ALLOWED_UPDATE_FIELDS -> ColumnValues \cup {Absent}] :
        Cardinality({k \in ALLOWED_UPDATE_FIELDS : f[k] # Absent}) \in 1..MaxUpdateFields}

NoAccountOp == [name |-> "", changed |-> FALSE, status |-> "", last_check_at |-> ""]

\* update_account(account_id, fields)
update_account(fields) ==
    LET existing == account.row
        written == {k \in ALLOWED_UPDATE_FIELDS : fields[k] # Absent}
        should_reset_status ==
            \E k \in written : ResetsStatus(k) /\ existing[k] # fields[k]
        row == [k \in ALLOWED_UPDATE_FIELDS |->
                  IF k \in written THEN fields[k] ELSE existing[k]]
    IN account' =
         [row |-> row,
          status |-> IF should_reset_status THEN "unknown" ELSE account.status,
          last_check_at |-> IF should_reset_status THEN "NULL" ELSE account.last_check_at,
          op |-> [name |-> "update_account",
                  changed |-> \E k \in CredentialFields : row[k] # existing[k],
                  status |-> account.status,
                  last_check_at |-> account.last_check_at]]

\* check_account_validity(account_id)
check_account_validity(is_valid) ==
    account' = [account EXCEPT !.status = IF is_valid THEN "valid" ELSE "invalid",
                               !.last_check_at = "checked",
                               !.op = NoAccountOp]

\* ---- SpecAccount: one stored account is checked and edited
InitAccount ==
    /\ DispatchIdle
    /\ RulesIdle
    /\ SchedIdle
    /\ PollIdle
    /\ LateIdle
    /\ account = [row |-> [k \in ALLOWED_UPDATE_FIELDS |-> "old"], status |-> "unknown",
                  last_check_at |-> "NULL", op |-> NoAccountOp]
    /\ client = NoClient
    /\ executor = NoExecutor
    /\ matcher = NoMatcher
    /\ cache = NoCache
    /\ wbi = NoWbi

AccountNext ==
    \/ /\ \E f \in UpdateRequests : update_account(f)
       /\ UNCHANGED <<coreVars, client, executor, matcher, cache, wbi>>
    \/ /\ \E v \in BOOLEAN : check_account_validity(v)
       /\ UNCHANGED <<coreVars, client, executor, matcher, cache, wbi>>

SpecAccount == InitAccount /\ [][AccountNext]_vars

\* ----------------------------------------------------------------- client
\* _request serves the main host, _request_cross_domain serves report_user
RequestPaths == {"main", "cross"}

\* what the platform may answer with
ResponseCodes ==
    {OkCode, FailCode, TooManyRequests, RiskControl, NotLoggedIn,
     HumanVerification, FrequencyLimit, FrequencyLimitAlt}

\* -101 is backed off and retried like 101
Retryable_SignLost(path, code) ==
    IF path = "main"
    THEN code \in {TooManyRequests, FrequencyLimit, FrequencyLimitAlt, NotLoggedIn}
    ELSE code \in {TooManyRequests, NotLoggedIn}

\* the codes after which the loop sleeps and continues
Retryable(path, code) ==
    IF path = "main"
    THEN code \in {TooManyRequests, FrequencyLimit, FrequencyLimitAlt}
    ELSE code = TooManyRequests

\* the envelope after the loop: {"code": -999, ...} from _request,
\* {"status": False, "data": ...} from _request_cross_domain
ExhaustedEnvelope(path) == IF path = "main" THEN MaxRetriesReached ELSE NoCode

\* for attempt in range(retries) has run out
LoopEnd(c) ==
    IF c.attempt = c.retries
    THEN [c EXCEPT !.pc = "done", !.ret = ExhaustedEnvelope(c.path), !.exhausted = TRUE]
    ELSE c

\* SENTINEL_MAX_RETRIES: the configured cap, 3 unless the environment lowers it
ConfiguredCaps == 1..MAX_RETRIES

\* 5 * (2 ** attempt) seconds after a rate-limit code (the jitter left out)
Backoff(attempt) == IF attempt = 0 THEN 5 ELSE IF attempt = 1 THEN 10 ELSE 20

\* a client operation starts its request helper
ClientCall(path, retries) ==
    /\ client.pc \in {"idle", "done"}
    /\ client' = [NoClient EXCEPT !.pc = "try", !.path = path, !.retries = retries]

\* the platform answers the attempt
ClientResponse(code) ==
    /\ client.pc = "try"
    /\ client' =
         IF Retryable(client.path, code)
         THEN LoopEnd([client EXCEPT !.attempt = @ + 1, !.calls = @ + 1, !.last = code,
                                     !.slept = @ + Backoff(client.attempt)])
         ELSE [client EXCEPT !.pc = "done", !.calls = @ + 1, !.last = code, !.ret = code]

\* httpx.TimeoutException, ConnectError or ReadError: sleep (attempt + 1) * 2, retry
ClientNetworkError ==
    /\ client.pc = "try"
    /\ client' = LoopEnd([client EXCEPT !.attempt = @ + 1, !.calls = @ + 1,
                                        !.last = NoResponse,
                                        !.slept = @ + (client.attempt + 1) * 2])

\* ---- SpecClient: calls on both request paths, every answer at every attempt
InitClient ==
    /\ DispatchIdle
    /\ RulesIdle
    /\ SchedIdle
    /\ PollIdle
    /\ LateIdle
    /\ AuxIdle

ClientNext ==
    \/ /\ \E path \in RequestPaths, retries \in ConfiguredCaps : ClientCall(path, retries)
       /\ UNCHANGED <<coreVars, account, executor, matcher, cache, wbi>>
    \/ /\ \E code \in ResponseCodes : ClientResponse(code)
       /\ UNCHANGED <<coreVars, account, executor, matcher, cache, wbi>>
    \/ /\ ClientNetworkError
       /\ UNCHANGED <<coreVars, account, executor, matcher, cache, wbi>>

SpecClient == InitClient /\ [][ClientNext]_vars

\* --------------------------------------------------------------- executor
TargetTypes == {"video", "comment", "user", "other"}

\* execute_single_report(target, account) is called
ExecutorStart(type) ==
    /\ executor.pc \in {"idle", "returned", "propagated"}
    /\ executor' = [NoExecutor EXCEPT !.pc = "args", !.type = type]

\* an exception inside the try block reaches the except branch
ToHandler(e, step) == [e EXCEPT !.pc = "handler_log", !.raisedIn = step]

\* an exception inside the except branch leaves the function
Propagates(e, step) == [e EXCEPT !.pc = "propagated", !.raisedIn = step]

\* BilibiliAuth.from_db_account, the client context, int(identifier), ...: an
\* unknown target type gets {"code": -1} without a client call
ExecutorResolve(raises) ==
    /\ executor.pc = "args"
    /\ executor' =
         IF raises THEN ToHandler(executor, "args")
         ELSE IF executor.type = "other"
              THEN [executor EXCEPT !.pc = "log", !.code = FailCode,
                                    !.success = ServiceSuccess(FailCode)]
              ELSE [executor EXCEPT !.pc = "call"]

\* client.report_video / report_comment / report_user returns or raises
ExecutorCall(code, raises) ==
    /\ executor.pc = "call"
    /\ executor' =
         IF raises THEN ToHandler(executor, "call")
         ELSE [executor EXCEPT !.pc = "log", !.code = code,
                               !.success = ServiceSuccess(code),
                               !.platformOk = ServiceSuccess(code)]

\* INSERT INTO report_logs (..., response_data, success, error_message)
ExecutorLog(raises) ==
    /\ executor.pc = "log"
    /\ executor' =
         IF raises THEN ToHandler(executor, "log")
         ELSE [executor EXCEPT !.pc = "publish", !.audits = @ + 1,
                               !.okAudits = IF executor.success THEN @ + 1 ELSE @]

\* broadcast_log(...), then the result record with "response"
ExecutorPublish(raises) ==
    /\ executor.pc = "publish"
    /\ executor' =
         IF raises THEN ToHandler(executor, "publish")
         ELSE [executor EXCEPT !.pc = "returned", !.hasResponse = TRUE]

\* except Exception: INSERT INTO report_logs (..., success = False, str(e))
ExecutorHandlerLog(raises) ==
    /\ executor.pc = "handler_log"
    /\ executor' =
         IF raises THEN Propagates(executor, "handler_log")
         ELSE [executor EXCEPT !.pc = "handler_publish", !.audits = @ + 1]

\* except Exception: broadcast_log(...), then the result record without "response"
ExecutorHandlerPublish(raises) ==
    /\ executor.pc = "handler_publish"
    /\ executor' =
         IF raises THEN Propagates(executor, "handler_publish")
         ELSE [executor EXCEPT !.pc = "returned", !.success = FALSE]

\* ---- SpecExecutor: one (target, account) pair after another, every step
\* returning or raising
InitExecutor ==
    /\ DispatchIdle
    /\ RulesIdle
    /\ SchedIdle
    /\ PollIdle
    /\ LateIdle
    /\ AuxIdle

ExecutorNext ==
    \/ /\ \E type \in TargetTypes : ExecutorStart(type)
       /\ UNCHANGED <<coreVars, account, client, matcher, cache, wbi>>
    \/ /\ \E r \in BOOLEAN : ExecutorResolve(r)
       /\ UNCHANGED <<coreVars, account, client, matcher, cache, wbi>>
    \/ /\ \E code \in Outcomes \ {NoResponse}, r \in BOOLEAN : ExecutorCall(code, r)
       /\ UNCHANGED <<coreVars, account, client, matcher, cache, wbi>>
    \/ /\ \E r \in BOOLEAN : ExecutorLog(r)
       /\ UNCHANGED <<coreVars, account, client, matcher, cache, wbi>>
    \/ /\ \E r \in BOOLEAN : ExecutorPublish(r)
       /\ UNCHANGED <<coreVars, account, client, matcher, cache, wbi>>
    \/ /\ \E r \in BOOLEAN : ExecutorHandlerLog(r)
       /\ UNCHANGED <<coreVars, account, client, matcher, cache, wbi>>
    \/ /\ \E r \in BOOLEAN : ExecutorHandlerPublish(r)
       /\ UNCHANGED <<coreVars, account, client, matcher, cache, wbi>>

SpecExecutor == InitExecutor /\ [][ExecutorNext]_vars

\* ---------------------------------------------------------- reply matching
FALLBACK_AUTOREPLY_TEXT == "fallback"

\* texts are sequences of characters, so that "in" is a real substring test
Chars == {"a", "b"}
Texts(n) == UNION {[1..k -> Chars] : k \in 0..n}

\* the keyword column: NULL, or a text (the empty text included)
KeywordColumn == {[null |-> TRUE, text |-> <<>>]} \cup
                 {[null |-> FALSE, text |-> t] : t \in Texts(1)}

ResponseColumn == {"r1", "r2"}

\* keyword in msg_content
IsSubstring(k, c) ==
    \E i \in 0..(Len(c) - Len(k)) : SubSeq(c, i + 1, i + Len(k)) = k

\* ORDER BY priority DESC, id ASC
Precedes(a, b) ==
    \/ a.priority > b.priority
    \/ a.priority = b.priority /\ a.id < b.id

RECURSIVE OrderRows(_)
OrderRows(S) ==
    IF S = {} THEN <<>>
    ELSE LET first == CHOOSE r \in S : \A o \in S \ {r} : Precedes(r, o)
         IN  <<first>> \o OrderRows(S \ {first})

\* the query without its WHERE clause
ActiveConfigs_Unfiltered(rows) ==
    OrderRows({rows[i] : i \in DOMAIN rows})

\* SELECT * FROM autoreply_config WHERE is_active = 1 ORDER BY priority DESC, id ASC
ActiveConfigs(rows) ==
    OrderRows({rows[i] : i \in {j \in DOMAIN rows : rows[j].is_active}})

\* the loop of match_reply_rule from position i on
RECURSIVE MatchFrom(_, _, _, _, _)
MatchFrom(msg_content, configs, i, default_reply, has_default_reply) ==
    IF i > Len(configs) THEN default_reply
    ELSE LET keyword == configs[i].keyword
         IN  IF keyword.null
             THEN IF ~has_default_reply
                  THEN MatchFrom(msg_content, configs, i + 1, configs[i].response, TRUE)
                  ELSE MatchFrom(msg_content, configs, i + 1, default_reply, has_default_reply)
             ELSE IF keyword.text # <<>> /\ IsSubstring(keyword.text, msg_content)
                  THEN configs[i].response
                  ELSE MatchFrom(msg_content, configs, i + 1, default_reply, has_default_reply)

match_reply_rule(msg_content, configs) ==
    MatchFrom(msg_content, configs, 1, FALLBACK_AUTOREPLY_TEXT, FALSE)

\* a message arrives and the reply for it is chosen from the stored rules
MatchReply(content) ==
    /\ matcher' = [matcher EXCEPT
                     !.pc = "matched",
                     !.content = content,
                     !.reply = match_reply_rule(content, ActiveConfigs(matcher.rows))]

\* ---- SpecMatcher: every small rule table, every short message
ConfigRows ==
    [id : {0}, priority : 0..1, is_active : BOOLEAN, keyword : KeywordColumn,
     response : ResponseColumn]

InitMatcher ==
    /\ DispatchIdle
    /\ RulesIdle
    /\ SchedIdle
    /\ PollIdle
    /\ LateIdle
    /\ account = NoAccount
    /\ client = NoClient
    /\ executor = NoExecutor
    /\ cache = NoCache
    /\ wbi = NoWbi
    /\ \E n \in 0..MaxConfigs : \E rs \in [1..n -> ConfigRows] :
          matcher = [NoMatcher EXCEPT
                       !.rows = [i \in 1..n |-> [rs[i] EXCEPT !.id = i]]]

MatcherNext ==
    \/ /\ \E content \in Texts(MaxTextLen) : MatchReply(content)
       /\ UNCHANGED <<coreVars, account, client, executor, cache, wbi>>

SpecMatcher == InitMatcher /\ [][MatcherNext]_vars

\* ------------------------------------------------- active-accounts cache
\* one stored account: the columns the projection selects on, a credential
\* column and a device-token column (values 0 and 1 stand for two texts)
NoRow == [exists |-> FALSE, is_active |-> FALSE, status |-> "", sessdata |-> 0, buvid3 |-> 0]

\* SELECT * FROM accounts WHERE is_active = 1 AND status = 'valid'
Projection(row) ==
    IF row.exists /\ row.is_active /\ row.status = "valid" THEN <<row>> ELSE <<>>

NoEntry == [present |-> FALSE, data |-> <<>>]

Readers == 1..NumReaders
Writers == 1..NumWriters

\* the statement of each mutation of the accounts table, applied to the row
Mutations == {"create", "update_cred", "update_active", "delete", "check_valid",
              "check_invalid", "sweep", "refresh", "qr"}

CanMutate(kind, row) ==
    CASE kind = "create" -> ~row.exists
      [] kind = "sweep"  -> row.exists /\ row.is_active /\ row.status \in {"valid", "expiring"}
      [] OTHER           -> row.exists

Mutated(kind, row) ==
    CASE kind = "create"        -> [exists |-> TRUE, is_active |-> TRUE, status |-> "unknown",
                                    sessdata |-> 0, buvid3 |-> 0]
      [] kind = "update_cred"   -> [row EXCEPT !.sessdata = 1 - @, !.status = "unknown"]
      [] kind = "update_active" -> [row EXCEPT !.is_active = ~@]
      [] kind = "delete"        -> NoRow
      [] kind = "check_valid"   -> [row EXCEPT !.status = "valid"]
      [] kind = "check_invalid" -> [row EXCEPT !.status = "invalid"]
      [] kind = "sweep"         -> [row EXCEPT !.status = "expiring"]
      [] kind = "refresh"       -> [row EXCEPT !.sessdata = 1 - @, !.status = "valid"]
      [] kind = "qr"            -> [row EXCEPT !.sessdata = 1 - @, !.status = "valid"]

\* _get_cached: a live entry is returned, an expired one deleted
GetCached(r, expired) ==
    /\ cache.rd[r].pc = "idle"
    /\ IF cache.entry.present /\ ~expired
       THEN cache' = [cache EXCEPT !.rd[r] = [pc |-> "idle", got |-> cache.entry.data]]
       ELSE cache' = [cache EXCEPT !.entry = NoEntry,
                                   !.rd[r] = [pc |-> "query", got |-> <<>>]]

\* execute_query: async with _lock; the SELECT runs on the connection
ReaderQuery(r) ==
    /\ cache.rd[r].pc = "query"
    /\ cache.lock = ""
    /\ cache' = [cache EXCEPT !.lock = "reader",
                              !.rd[r] = [pc |-> "fetched", got |-> Projection(cache.table)]]

\* execute_query returns (the lock is released), then _set_cache(key, result, 60),
\* without a suspension point in between
SetCache(r) ==
    /\ cache.rd[r].pc = "fetched"
    /\ cache' = [cache EXCEPT !.lock = "",
                              !.entry = [present |-> TRUE, data |-> cache.rd[r].got],
                              !.rd[r].pc = "idle"]

\* a mutation's UPDATE / INSERT / DELETE runs under _lock
WriterStatement(w, kind) ==
    /\ cache.wr[w].pc = "idle"
    /\ cache.lock = ""
    /\ CanMutate(kind, cache.table)
    /\ cache' = [cache EXCEPT !.lock = "writer",
                              !.table = Mutated(kind, cache.table),
                              !.wr[w] = [pc |-> "written", kind |-> kind]]

\* execute_query returns, then invalidate_cache("active_accounts"); qr_login_save
\* goes on to fetch the device tokens
AfterStatement(c, w) ==
    [c EXCEPT !.lock = "", !.entry = NoEntry,
              !.wr[w].pc = IF c.wr[w].kind = "qr" THEN "fetch_buvid" ELSE "idle"]

WriterInvalidate(w) ==
    /\ cache.wr[w].pc = "written"
    /\ cache' = AfterStatement(cache, w)

\* qr_login_save: buvid = await _fetch_buvid(...); UPDATE accounts SET buvid3 = ?, buvid4 = ?
QrBuvidStatement(w, found) ==
    /\ cache.wr[w].pc = "fetch_buvid"
    /\ IF found
       THEN /\ cache.lock = ""
            /\ cache' = [cache EXCEPT !.lock = "writer",
                                      !.table.buvid3 = 1 - @,
                                      !.wr[w].pc = "buvid_written"]
       ELSE cache' = [cache EXCEPT !.wr[w].pc = "idle"]

\* ... and qr_login_save returns
QrReturn(w) ==
    /\ cache.wr[w].pc = "buvid_written"
    /\ cache' = [cache EXCEPT !.lock = "", !.wr[w].pc = "idle"]

\* ---- SpecCache: readers and mutations of one account row, every interleaving
\* of their suspension points
InitCache ==
    /\ DispatchIdle
    /\ RulesIdle
    /\ SchedIdle
    /\ PollIdle
    /\ LateIdle
    /\ account = NoAccount
    /\ client = NoClient
    /\ executor = NoExecutor
    /\ matcher = NoMatcher
    /\ wbi = NoWbi
    /\ cache = [table |-> NoRow, entry |-> NoEntry, lock |-> "",
                rd |-> [r \in Readers |-> [pc |-> "idle", got |-> <<>>]],
                wr |-> [w \in Writers |-> [pc |-> "idle", kind |-> ""]]]

CacheNext ==
    \/ /\ \E r \in Readers, expired \in BOOLEAN : GetCached(r, expired)
       /\ UNCHANGED <<coreVars, account, client, executor, matcher, wbi>>
    \/ /\ \E r \in Readers : ReaderQuery(r)
       /\ UNCHANGED <<coreVars, account, client, executor, matcher, wbi>>
    \/ /\ \E r \in Readers : SetCache(r)
       /\ UNCHANGED <<coreVars, account, client, executor, matcher, wbi>>
    \/ /\ \E w \in Writers, kind \in Mutations : WriterStatement(w, kind)
       /\ UNCHANGED <<coreVars, account, client, executor, matcher, wbi>>
    \/ /\ \E w \in Writers : WriterInvalidate(w)
       /\ UNCHANGED <<coreVars, account, client, executor, matcher, wbi>>
    \/ /\ \E w \in Writers, found \in BOOLEAN : QrBuvidStatement(w, found)
       /\ UNCHANGED <<coreVars, account, client, executor, matcher, wbi>>
    \/ /\ \E w \in Writers : QrReturn(w)
       /\ UNCHANGED <<coreVars, account, client, executor, matcher, wbi>>

SpecCache == InitCache /\ [][CacheNext]_vars

\* -------------------------------------------------------- WBI key cache
Callers == 1..NumCallers

IdleCaller == [pc |-> "idle", foundStale |-> FALSE, fetched |-> 0]

\* BilibiliAuth.wbi_keys_stale()
wbi_keys_stale(c) ==
    IF c.img_key = "" THEN TRUE
    ELSE (c.now - c.refreshed_at) > WBI_TTL_SECONDS

\* refresh_wbi_keys without its double-check
NeedsFetch_Always(c) == TRUE

\* inside the lock: "if not self.wbi_keys_stale(): return True"
NeedsFetch(c) == wbi_keys_stale(c)

\* _request(sign=True): if sign and BilibiliAuth.wbi_keys_stale(): refresh first
SignedRequest(k) ==
    /\ wbi.cs[k].pc = "idle"
    /\ wbi' = [wbi EXCEPT !.cs[k] =
                 IF wbi_keys_stale(wbi)
                 THEN [pc |-> "wait", foundStale |-> TRUE, fetched |-> 0]
                 ELSE [pc |-> "sign", foundStale |-> FALSE, fetched |-> 0]]

\* async with _wbi_refresh_lock, then the double-check
AcquireRefreshLock(k) ==
    /\ wbi.cs[k].pc = "wait"
    /\ wbi.lock = 0
    /\ IF NeedsFetch(wbi)
       THEN wbi' = [wbi EXCEPT !.lock = k, !.cs[k].pc = "fetching",
                               !.cs[k].fetched = @ + 1]
       ELSE wbi' = [wbi EXCEPT !.cs[k].pc = "sign"]

\* the nav request returns: code 0 with wbi_img stores the keys and
\* time.monotonic(); anything else leaves the cache as it was
NavReturns(k, ok) ==
    /\ wbi.cs[k].pc = "fetching"
    /\ IF ok
       THEN wbi' = [wbi EXCEPT !.img_key = "key", !.prev = wbi.refreshed_at,
                               !.refreshed_at = wbi.now, !.lock = 0,
                               !.cs[k].pc = "sign"]
       ELSE wbi' = [wbi EXCEPT !.lock = 0, !.cs[k].pc = "sign"]

\* get_wbi_keys(), BilibiliSign(...).sign(params); the request goes out
Sign(k) ==
    /\ wbi.cs[k].pc = "sign"
    /\ wbi' = [wbi EXCEPT !.cs[k].pc = "idle"]

\* the monotonic clock advances
ClockAdvance ==
    /\ wbi.now < MaxClockSteps * ClockStep
    /\ wbi' = [wbi EXCEPT !.now = @ + ClockStep]

\* ---- SpecWbi: concurrent signed requests while the keys age
InitWbi ==
    /\ DispatchIdle
    /\ RulesIdle
    /\ SchedIdle
    /\ PollIdle
    /\ LateIdle
    /\ account = NoAccount
    /\ client = NoClient
    /\ executor = NoExecutor
    /\ matcher = NoMatcher
    /\ cache = NoCache
    /\ wbi = [NoWbi EXCEPT !.cs = [k \in Callers |-> IdleCaller]]

WbiNext ==
    \/ /\ \E k \in Callers : SignedRequest(k)
       /\ UNCHANGED <<coreVars, account, client, executor, matcher, cache>>
    \/ /\ \E k \in Callers : AcquireRefreshLock(k)
       /\ UNCHANGED <<coreVars, account, client, executor, matcher, cache>>
    \/ /\ \E k \in Callers, ok \in BOOLEAN : NavReturns(k, ok)
       /\ UNCHANGED <<coreVars, account, client, executor, matcher, cache>>
    \/ /\ \E k \in Callers : Sign(k)
       /\ UNCHANGED <<coreVars, account, client, executor, matcher, cache>>
    \/ /\ ClockAdvance
       /\ UNCHANGED <<coreVars, account, client, executor, matcher, cache>>

SpecWbi == InitWbi /\ [][WbiNext]_vars

\* ------------------------------------------- poll cycle over the accounts
\* the accounts the cycle's query returns, each with its own uid (the id here)
PollAccounts == 1..NumPollAccounts

\* the peers that write to an account: two to the first, one to the others
PeersOf(a) == IF a = 1 THEN <<11, 12>> ELSE <<11>>

Threads == UNION {{<<a, PeersOf(a)[i]>> : i \in DOMAIN PeersOf(a)} : a \in PollAccounts}

\* session_list of get_recent_sessions for account a: the conversation of the
\* account with itself, then every peer that has written, with the last message
SessionList(a, thread) ==
    <<[talker_id |-> a, sender_uid |-> a, timestamp |-> 1]>> \o
    SelectSeq([i \in DOMAIN PeersOf(a) |->
                  [talker_id |-> PeersOf(a)[i],
                   sender_uid |-> thread[<<a, PeersOf(a)[i]>>].sender,
                   timestamp |-> thread[<<a, PeersOf(a)[i]>>].ts]],
              LAMBDA m : m.timestamp > 0)

\* a poll loop that goes on with the account after code 21046
StopsAccount_Never(mode, code) == FALSE

\* if send_code == 21046: break (the loop of the route does not look at the response)
StopsAccount(mode, code) == mode = "service" /\ code = RateLimitedSend

\* the checks of one session before a reply: the peer is the account itself;
\* the last message is the account's own; the message was answered before. The
\* loop of the route has the first check only.
SkipsSession(mode, own_uid, session, last_replied_ts) ==
    \/ session.talker_id = own_uid
    \/ mode = "service" /\ session.sender_uid = own_uid
    \/ mode = "service" /\ session.timestamp <= last_replied_ts

\* a cycle begins: run_autoreply_poll_cycle ("service") or one iteration of the
\* poll_loop of POST /api/autoreply/start ("route")
CycleStart(mode) ==
    /\ pollCycle.pc \in {"idle", "done"}
    /\ pollCycle' = [pollCycle EXCEPT !.pc = "account", !.mode = mode, !.ai = 1,
                                      !.si = 0, !.snap = <<>>, !.sends = {},
                                      !.limited = {}, !.polled = {}, !.lateSend = FALSE]

\* the cycle record when the loop over the accounts moves on
NextAccount(c) ==
    [c EXCEPT !.pc = IF c.ai < NumPollAccounts THEN "account" ELSE "done",
              !.ai = @ + 1, !.si = 0, !.snap = <<>>]

\* sessions = await client.get_recent_sessions()
CycleSessions(ok) ==
    /\ pollCycle.pc = "account"
    /\ LET c == [pollCycle EXCEPT !.polled = @ \cup {pollCycle.ai}] IN
       pollCycle' = IF ok
                    THEN [c EXCEPT !.pc = "session", !.si = 1,
                                   !.snap = SessionList(c.ai, c.thread)]
                    ELSE NextAccount(c)

\* the next session of the list: skipped, or a reply is due
CycleSession ==
    /\ pollCycle.pc = "session"
    /\ LET c == pollCycle IN
       pollCycle' =
         IF c.si > Len(c.snap) THEN NextAccount(c)
         ELSE IF SkipsSession(c.mode, c.ai, c.snap[c.si],
                              IF c.snap[c.si].talker_id = c.ai THEN 0
                              ELSE c.replied[<<c.ai, c.snap[c.si].talker_id>>])
              THEN [c EXCEPT !.si = @ + 1]
              ELSE [c EXCEPT !.pc = "send"]

\* send_private_message returns; the service logs the send and stores the
\* message's timestamp; an accepted reply is the session's last message then
CycleSend(code) ==
    /\ pollCycle.pc = "send"
    /\ LET c == pollCycle
           m == c.snap[c.si]
           th == <<c.ai, m.talker_id>>
           sent == [c EXCEPT
                      !.sends = @ \cup {[account |-> c.ai, talker_id |-> m.talker_id,
                                         sender_uid |-> m.sender_uid]},
                      !.lateSend = @ \/ c.ai \in c.limited,
                      !.thread = IF code = OkCode /\ th \in Threads
                                 THEN [@ EXCEPT ![th] = [sender |-> c.ai,
                                                         ts |-> Min(MaxMsgTs, @.ts + 1)]]
                                 ELSE @,
                      !.replied = IF c.mode = "service" /\ th \in Threads
                                  THEN [@ EXCEPT ![th] = m.timestamp] ELSE @,
                      !.limited = IF code = RateLimitedSend THEN @ \cup {c.ai} ELSE @]
       IN pollCycle' = IF StopsAccount(c.mode, code)
                       THEN NextAccount(sent)
                       ELSE [sent EXCEPT !.pc = "session", !.si = @ + 1]

\* send_private_message raises: the except of the account loop ends the account
CycleSendRaises ==
    /\ pollCycle.pc = "send"
    /\ pollCycle' = NextAccount(pollCycle)

\* a peer writes to an account
PeerWrites(th) ==
    /\ pollCycle.thread[th].ts < MaxMsgTs
    /\ pollCycle' = [pollCycle EXCEPT !.thread[th] = [sender |-> th[2], ts |-> @.ts + 1]]

\* ---- SpecCycle: poll cycles of the service and of the route, the peers writing
InitCycle ==
    /\ DispatchIdle
    /\ RulesIdle
    /\ SchedIdle
    /\ PollIdle
    /\ AuxIdle
    /\ qr = NoQr
    /\ checkAll = NoCheckAll
    /\ delay = NoDelay
    /\ loops = NoLoops
    /\ channel = NoChannel
    /\ pollCycle = [NoPollCycle EXCEPT
                      !.thread = [th \in Threads |-> [sender |-> th[2], ts |-> 0]],
                      !.replied = [th \in Threads |-> 0]]

CycleNext ==
    \/ /\ \E mode \in {"service", "route"} : CycleStart(mode)
       /\ UNCHANGED <<baseVars, qr, checkAll, delay, loops, channel>>
    \/ /\ \E ok \in BOOLEAN : CycleSessions(ok)
       /\ UNCHANGED <<baseVars, qr, checkAll, delay, loops, channel>>
    \/ /\ CycleSession
       /\ UNCHANGED <<baseVars, qr, checkAll, delay, loops, channel>>
    \/ /\ \E code \in SendCodes : CycleSend(code)
       /\ UNCHANGED <<baseVars, qr, checkAll, delay, loops, channel>>
    \/ /\ CycleSendRaises
       /\ UNCHANGED <<baseVars, qr, checkAll, delay, loops, channel>>
    \/ /\ \E th \in Threads : PeerWrites(th)
       /\ UNCHANGED <<baseVars, qr, checkAll, delay, loops, channel>>

SpecCycle == InitCycle /\ [][CycleNext]_vars

\* ------------------------------------------------------------ QR login
\* auth_service.qr_login_save.  qr.rows is the accounts table (the id of a
\* row is its index), qr.procs the position of every login in flight.  A
\* statement is one step: every execute_query / execute_insert is awaited.
Logins == 1..NumLogins
PlatformUids == 1..NumUids
NoUid == 0      \* uid = None: no DedeUserID cookie, NULL in the uid column

IdleLogin == [pc |-> "idle", uid |-> NoUid, id |-> 0, rounds |-> 0]

\* SELECT id FROM accounts WHERE uid = ?
RowsWithUid(rows, uid) == {i \in DOMAIN rows : rows[i].uid = uid}

\* the accounts table is unique on uid when it is not NULL: the UPDATE of
\* row id fails when another row holds the uid
UidTaken(rows, id, uid) == \E i \in DOMAIN rows : i # id /\ rows[i].uid = uid

\* qr_poll returned status_code 0 with both cookies
QrLoginPoll(l, uid) ==
    /\ qr.procs[l].pc \in {"idle", "done", "raised"}
    /\ qr.procs[l].rounds < MaxLoginRounds
    /\ qr' = [qr EXCEPT !.procs[l] =
                [pc |-> IF uid # NoUid THEN "select" ELSE "create",
                 uid |-> uid, id |-> 0, rounds |-> @.rounds + 1]]

\* existing = SELECT id FROM accounts WHERE uid = ?
QrLoginSelect(l) ==
    /\ qr.procs[l].pc = "select"
    /\ LET existing == RowsWithUid(qr.rows, qr.procs[l].uid) IN
       qr' = [qr EXCEPT !.procs[l] =
                IF existing # {}
                THEN [@ EXCEPT !.pc = "update",
                               !.id = CHOOSE i \in existing : \A j \in existing : i <= j]
                ELSE [@ EXCEPT !.pc = "create"]]

\* UPDATE accounts SET sessdata, bili_jct, ..., status = 'valid' WHERE id = ?
QrLoginUpdate(l) ==
    /\ qr.procs[l].pc = "update"
    /\ qr' = [qr EXCEPT !.rows[qr.procs[l].id] =
                          [@ EXCEPT !.status = "valid",
                                    !.cred = <<l, qr.procs[l].rounds>>],
                        !.procs[l].pc = "buvid"]

\* create_account: INSERT without uid, status has its default.  dup records
\* that a row with the UID of the login existed when the row was inserted.
QrLoginCreate(l) ==
    /\ qr.procs[l].pc = "create"
    /\ LET uid == qr.procs[l].uid IN
       qr' = [qr EXCEPT !.rows = Append(@,
                            [uid |-> NoUid, status |-> "unknown",
                             cred |-> <<l, qr.procs[l].rounds>>,
                             dup |-> uid # NoUid /\ RowsWithUid(qr.rows, uid) # {}]),
                        !.procs[l] = [@ EXCEPT
                             !.pc = IF uid # NoUid THEN "setuid" ELSE "buvid",
                             !.id = Len(qr.rows) + 1]]

\* UPDATE accounts SET uid = ?, refresh_token = ?, status = 'valid' WHERE id = ?
QrLoginSetUid(l) ==
    /\ qr.procs[l].pc = "setuid"
    /\ LET id == qr.procs[l].id
           uid == qr.procs[l].uid IN
       IF UidTaken(qr.rows, id, uid)
       THEN qr' = [qr EXCEPT !.procs[l].pc = "raised"]
       ELSE qr' = [qr EXCEPT !.rows[id] = [@ EXCEPT !.uid = uid, !.status = "valid"],
                             !.procs[l].pc = "buvid"]

\* _fetch_buvid, UPDATE of buvid3/buvid4, the final SELECT and the return
QrLoginFinish(l) ==
    /\ qr.procs[l].pc = "buvid"
    /\ qr' = [qr EXCEPT !.procs[l].pc = "done"]

InitQr ==
    /\ DispatchIdle
    /\ RulesIdle
    /\ SchedIdle
    /\ PollIdle
    /\ AuxIdle
    /\ pollCycle = NoPollCycle
    /\ checkAll = NoCheckAll
    /\ delay = NoDelay
    /\ loops = NoLoops
    /\ channel = NoChannel
    /\ qr = [rows |-> <<>>, procs |-> [l \in Logins |-> IdleLogin]]

QrNext ==
    \/ /\ \E l \in Logins, uid \in PlatformUids \cup {NoUid} : QrLoginPoll(l, uid)
       /\ UNCHANGED <<baseVars, pollCycle, checkAll, delay, loops, channel>>
    \/ /\ \E l \in Logins : QrLoginSelect(l)
       /\ UNCHANGED <<baseVars, pollCycle, checkAll, delay, loops, channel>>
    \/ /\ \E l \in Logins : QrLoginUpdate(l)
       /\ UNCHANGED <<baseVars, pollCycle, checkAll, delay, loops, channel>>
    \/ /\ \E l \in Logins : QrLoginCreate(l)
       /\ UNCHANGED <<baseVars, pollCycle, checkAll, delay, loops, channel>>
    \/ /\ \E l \in Logins : QrLoginSetUid(l)
       /\ UNCHANGED <<baseVars, pollCycle, checkAll, delay, loops, channel>>
    \/ /\ \E l \in Logins : QrLoginFinish(l)
       /\ UNCHANGED <<baseVars, pollCycle, checkAll, delay, loops, channel>>

SpecQr == InitQr /\ [][QrNext]_vars

\* ------------------------------------------------------------ check-all
\* api/accounts.py: POST /check-all and its background sweep.
\* checkAll.running is _check_all_running, checkAll.pc the position of the
\* background task, checkAll.acc the state of check_one per account;
\* alive counts the sweeps created and not yet finished; responses, seen and
\* ends record the status codes returned, the number of sweeps alive when
\* each request arrived, and how the sweeps ended.
CheckAccounts == 1..NumCheckAccounts
CHECK_ALL_CONCURRENCY == 3
Accepted == 202
Conflict == 409

\* if _check_all_running: raise HTTPException(409)
Rejects_Never(running) == FALSE

Rejects(running) == running

\* check_all_accounts: the body under _check_all_lock has no await, so the
\* handler runs from the acquire to the return without interleaving
check_all_accounts ==
    /\ Len(checkAll.responses) < MaxCheckRequests
    /\ IF Rejects(checkAll.running)
       THEN checkAll' = [checkAll EXCEPT !.responses = Append(@, Conflict),
                                         !.seen = Append(@, checkAll.alive)]
       ELSE checkAll' = [checkAll EXCEPT
                           !.running = TRUE,
                           !.alive = @ + 1,
                           !.pc = "queued",
                           !.acc = [a \in CheckAccounts |-> "todo"],
                           !.responses = Append(@, Accepted),
                           !.seen = Append(@, checkAll.alive)]

\* accounts = await list_accounts_internal(); an exception goes to the
\* except branch and then to finally
CheckAllList(ok) ==
    /\ checkAll.pc = "queued"
    /\ checkAll' = [checkAll EXCEPT !.pc = IF ok THEN "gather" ELSE "failed"]

\* check_one: async with sem
CheckOneStart(a) ==
    /\ checkAll.pc = "gather"
    /\ checkAll.acc[a] = "todo"
    /\ Cardinality({b \in CheckAccounts : checkAll.acc[b] = "checking"})
          < CHECK_ALL_CONCURRENCY
    /\ checkAll' = [checkAll EXCEPT !.acc[a] = "checking"]

\* check_account_health returns or raises; gather(return_exceptions=True)
\* keeps the exception as a result
CheckOneEnd(a, ok) ==
    /\ checkAll.pc = "gather"
    /\ checkAll.acc[a] = "checking"
    /\ checkAll' = [checkAll EXCEPT !.acc[a] = IF ok THEN "checked" ELSE "raised"]

\* finally: _check_all_running = False, the task ends
CheckAllFinally ==
    /\ \/ checkAll.pc = "failed"
       \/ /\ checkAll.pc = "gather"
          /\ \A a \in CheckAccounts : checkAll.acc[a] \in {"checked", "raised"}
    /\ checkAll' = [checkAll EXCEPT
                      !.running = FALSE,
                      !.alive = @ - 1,
                      !.pc = "none",
                      !.ends = Append(@, IF checkAll.pc = "failed"
                                         THEN "error" ELSE "normal")]

InitCheckAll ==
    /\ DispatchIdle
    /\ RulesIdle
    /\ SchedIdle
    /\ PollIdle
    /\ AuxIdle
    /\ pollCycle = NoPollCycle
    /\ qr = NoQr
    /\ delay = NoDelay
    /\ loops = NoLoops
    /\ channel = NoChannel
    /\ checkAll = NoCheckAll

CheckAllNext ==
    \/ /\ check_all_accounts
       /\ UNCHANGED <<baseVars, pollCycle, qr, delay, loops, channel>>
    \/ /\ \E ok \in BOOLEAN : CheckAllList(ok)
       /\ UNCHANGED <<baseVars, pollCycle, qr, delay, loops, channel>>
    \/ /\ \E a \in CheckAccounts : CheckOneStart(a)
       /\ UNCHANGED <<baseVars, pollCycle, qr, delay, loops, channel>>
    \/ /\ \E a \in CheckAccounts, ok \in BOOLEAN : CheckOneEnd(a, ok)
       /\ UNCHANGED <<baseVars, pollCycle, qr, delay, loops, channel>>
    \/ /\ CheckAllFinally
       /\ UNCHANGED <<baseVars, pollCycle, qr, delay, loops, channel>>

SpecCheckAll == InitCheckAll /\ [][CheckAllNext]_vars

\* ------------------------------------------------------------ humanized delay
\* bilibili_client._human_delay.  min_s and max_s are whole seconds; the
\* draw of random.lognormvariate and the returned delay are counted in half
\* seconds, so that max_s * 1.5 is the integer 3 * max_s.  mu only shapes
\* the distribution: the draw is any value exp() can return, 0.0 included.
DelayArgs == 0..MaxDelayArg
Draws == 0..(3 * MaxDelayArg + 2)

_human_delay_Unclamped(min_s, max_s, draw) == Max(2 * min_s, draw)

_human_delay(min_s, max_s, draw) == Max(2 * min_s, Min(draw, 3 * max_s))

HumanDelayCall(draw) ==
    /\ ~delay.called
    /\ delay' = [delay EXCEPT !.draw = draw,
                              !.result = _human_delay(delay.min_s, delay.max_s, draw),
                              !.called = TRUE]

InitDelay ==
    /\ DispatchIdle
    /\ RulesIdle
    /\ SchedIdle
    /\ PollIdle
    /\ AuxIdle
    /\ pollCycle = NoPollCycle
    /\ qr = NoQr
    /\ checkAll = NoCheckAll
    /\ loops = NoLoops
    /\ channel = NoChannel
    /\ \E min_s \in DelayArgs, max_s \in DelayArgs :
          delay = [NoDelay EXCEPT !.min_s = min_s, !.max_s = max_s]

DelayNext ==
    /\ \E draw \in Draws : HumanDelayCall(draw)
    /\ UNCHANGED <<baseVars, pollCycle, qr, checkAll, loops, channel>>

SpecDelay == InitDelay /\ [][DelayNext]_vars

\* ------------------------------------------------------------ standalone loops
\* autoreply_service.start_service / stop_service with every poll loop the
\* service creates.  loops.running is _autoreply_running, loops.task the
\* loop _autoreply_task refers to (0 for None), loops.lp the position of
\* each loop created so far (its index is its identity), loops.st the
\* position of each start_service call.  Ghosts: last is the call that
\* returned last with the flag it returned under, old the loops that
\* existed when stop_service last returned True, zombie whether one of
\* those began a poll cycle afterwards.
Starters == 1..NumStarters
AliveLoops == {i \in DOMAIN loops.lp : loops.lp[i] \in {"created", "cycle", "sleeping"}}

\* if _autoreply_running: return False; otherwise the call suspends in
\* await has_active_autoreply_poll_task()
StartGuard(c) ==
    /\ loops.st[c] = "idle"
    /\ IF loops.running
       THEN loops' = [loops EXCEPT
                        !.last = [name |-> "start", res |-> FALSE, wasRunning |-> TRUE]]
       ELSE loops' = [loops EXCEPT !.st[c] = "awaiting"]

\* has_active_autoreply_poll_task() returned True: return False
StartRefused(c) ==
    /\ loops.st[c] = "awaiting"
    /\ loops' = [loops EXCEPT
                   !.st[c] = "idle",
                   !.last = [name |-> "start", res |-> FALSE,
                             wasRunning |-> loops.running]]

\* the guard passed (and set_config returned for a non-default interval):
\* _autoreply_running = True; _autoreply_task = create_task(poll_loop())
StartLaunch(c) ==
    /\ loops.st[c] = "awaiting"
    /\ Len(loops.lp) < MaxLoops
    /\ loops' = [loops EXCEPT
                   !.st[c] = "idle",
                   !.running = TRUE,
                   !.lp = Append(@, "created"),
                   !.task = Len(loops.lp) + 1,
                   !.last = [name |-> "start", res |-> TRUE,
                             wasRunning |-> loops.running]]

\* stop_service: clears the flag and cancels the loop _autoreply_task
\* refers to; a cancelled loop is at an await and never runs on
StopLoops ==
    IF ~loops.running
    THEN loops' = [loops EXCEPT
                     !.last = [name |-> "stop", res |-> FALSE, wasRunning |-> FALSE]]
    ELSE loops' = [loops EXCEPT
                     !.running = FALSE,
                     !.lp = [i \in DOMAIN @ |->
                               IF i = loops.task /\ i \in AliveLoops
                               THEN "cancelled" ELSE @[i]],
                     !.task = 0,
                     !.old = DOMAIN loops.lp,
                     !.last = [name |-> "stop", res |-> TRUE, wasRunning |-> TRUE]]

\* while _autoreply_running: the loop starts, or wakes from its sleep, and
\* either begins a poll cycle or leaves the loop
LoopWakes(i) ==
    /\ i \in DOMAIN loops.lp
    /\ loops.lp[i] \in {"created", "sleeping"}
    /\ IF loops.running
       THEN loops' = [loops EXCEPT !.lp[i] = "cycle",
                                   !.zombie = @ \/ i \in loops.old]
       ELSE loops' = [loops EXCEPT !.lp[i] = "exited"]

\* run_autoreply_poll_cycle returned or raised: await asyncio.sleep
LoopCycleEnds(i) ==
    /\ i \in DOMAIN loops.lp
    /\ loops.lp[i] = "cycle"
    /\ loops' = [loops EXCEPT !.lp[i] = "sleeping"]

InitLoops ==
    /\ DispatchIdle
    /\ RulesIdle
    /\ SchedIdle
    /\ PollIdle
    /\ AuxIdle
    /\ pollCycle = NoPollCycle
    /\ qr = NoQr
    /\ checkAll = NoCheckAll
    /\ delay = NoDelay
    /\ loops = [NoLoops EXCEPT !.st = [c \in Starters |-> "idle"]]
    /\ channel = NoChannel

LoopsNext ==
    \/ /\ \E c \in Starters : StartGuard(c)
       /\ UNCHANGED <<baseVars, pollCycle, qr, checkAll, delay, channel>>
    \/ /\ \E c \in Starters : StartRefused(c)
       /\ UNCHANGED <<baseVars, pollCycle, qr, checkAll, delay, channel>>
    \/ /\ \E c \in Starters : StartLaunch(c)
       /\ UNCHANGED <<baseVars, pollCycle, qr, checkAll, delay, channel>>
    \/ /\ StopLoops
       /\ UNCHANGED <<baseVars, pollCycle, qr, checkAll, delay, channel>>
    \/ /\ \E i \in 1..MaxLoops : LoopWakes(i)
       /\ UNCHANGED <<baseVars, pollCycle, qr, checkAll, delay, channel>>
    \/ /\ \E i \in 1..MaxLoops : LoopCycleEnds(i)
       /\ UNCHANGED <<baseVars, pollCycle, qr, checkAll, delay, channel>>

SpecLoops == InitLoops /\ [][LoopsNext]_vars

\* ------------------------------------------------------------ live-event channel
\* api/websocket.py: broadcast_log over the module list _clients, called by
\* execute_single_report after its audit INSERT (and again by its except
\* branch) while another publication, of a second attempt of the batch or
\* of the scheduler, runs over the same list.  channel.clients is _clients,
\* channel.dead the sockets whose send_text raises, channel.pub the sockets
\* each publication has sent to and its local list disconnected.
Sockets == 1..NumSockets
Publishers == {"executor", "other"}
FreshPublication == [visited |-> {}, disconnected |-> {}]

\* for client in disconnected: _clients.remove(client) raises ValueError
\* when the socket is no longer in the list
RemoveRaises(p) == ~(channel.pub[p].disconnected \subseteq channel.clients)

\* the list after the clean-up loop, which removes what it still finds
AfterCleanup(p) ==
    [channel EXCEPT !.clients = @ \ channel.pub[p].disconnected,
                    !.pub[p] = FreshPublication]

\* the connection of socket c breaks
SocketDies(c) ==
    /\ c \in channel.clients \ channel.dead
    /\ channel' = [channel EXCEPT !.dead = @ \cup {c}]

\* websocket_logs: finally: if websocket in _clients: _clients.remove(websocket)
SocketHandlerEnds(c) ==
    /\ c \in channel.clients \cap channel.dead
    /\ channel' = [channel EXCEPT !.clients = @ \ {c}]

\* try: await client.send_text(payload) except Exception: disconnected.append
BroadcastSend(p, c) ==
    /\ p = "executor" => executor.pc \in {"publish", "handler_publish"}
    /\ c \in channel.clients \ channel.pub[p].visited
    /\ channel' = [channel EXCEPT
                     !.pub[p].visited = @ \cup {c},
                     !.pub[p].disconnected =
                         IF c \in channel.dead THEN @ \cup {c} ELSE @]

\* the publication of another caller reaches its clean-up loop
OtherBroadcastEnds ==
    /\ channel.clients \subseteq channel.pub["other"].visited
    /\ channel' = AfterCleanup("other")

\* the broadcast_log of the try block reaches its clean-up loop and returns
\* to execute_single_report, or raises into its except branch
ExecutorBroadcastEnds ==
    /\ channel.clients \subseteq channel.pub["executor"].visited
    /\ ExecutorPublish(RemoveRaises("executor"))
    /\ channel' = AfterCleanup("executor")

\* the same for the broadcast_log of the except branch
HandlerBroadcastEnds ==
    /\ channel.clients \subseteq channel.pub["executor"].visited
    /\ ExecutorHandlerPublish(RemoveRaises("executor"))
    /\ channel' = AfterCleanup("executor")

channelFrame == <<dispatchVars, ruleVars, schedVars, pollVars, account, client,
                  matcher, cache, wbi, pollCycle, qr, checkAll, delay, loops>>

\* ---- SpecChannel: attempts one after another; the platform answers every
\* call and the audit INSERTs succeed, only the channel fails
InitChannel ==
    /\ DispatchIdle
    /\ RulesIdle
    /\ SchedIdle
    /\ PollIdle
    /\ AuxIdle
    /\ pollCycle = NoPollCycle
    /\ qr = NoQr
    /\ checkAll = NoCheckAll
    /\ delay = NoDelay
    /\ loops = NoLoops
    /\ channel = [clients |-> Sockets, dead |-> {},
                  pub |-> [p \in Publishers |-> FreshPublication]]

ChannelNext ==
    \/ /\ \E type \in TargetTypes \ {"other"} : ExecutorStart(type)
       /\ UNCHANGED <<channelFrame, channel>>
    \/ /\ ExecutorResolve(FALSE)
       /\ UNCHANGED <<channelFrame, channel>>
    \/ /\ \E code \in Outcomes \ {NoResponse} : ExecutorCall(code, FALSE)
       /\ UNCHANGED <<channelFrame, channel>>
    \/ /\ ExecutorLog(FALSE)
       /\ UNCHANGED <<channelFrame, channel>>
    \/ /\ ExecutorHandlerLog(FALSE)
       /\ UNCHANGED <<channelFrame, channel>>
    \/ /\ \E c \in Sockets : SocketDies(c)
       /\ UNCHANGED <<channelFrame, executor>>
    \/ /\ \E c \in Sockets : SocketHandlerEnds(c)
       /\ UNCHANGED <<channelFrame, executor>>
    \/ /\ \E p \in Publishers, c \in Sockets : BroadcastSend(p, c)
       /\ UNCHANGED <<channelFrame, executor>>
    \/ /\ OtherBroadcastEnds
       /\ UNCHANGED <<channelFrame, executor>>
    \/ /\ ExecutorBroadcastEnds
       /\ UNCHANGED channelFrame
    \/ /\ HandlerBroadcastEnds
       /\ UNCHANGED channelFrame

SpecChannel == InitChannel /\ [][ChannelNext]_vars

\* ------------------------------------------------------------ properties
\* worker w has written "processing" to target t and has not returned yet
Holding(w, t) == wk[w].setProc /\ wk[w].t = t /\ wk[w].pc \notin {"idle", "done"}

SingleTargetKinds == {"single", "api"}
SweepKinds == {"single", "batch"}

\* C1: at any time at most one worker of report_service (single-target
\* invocation or batch task) holds a given target in "processing".
C1_OneHolderPerTarget ==
    \A t \in Targets :
        Cardinality({w \in Workers : Kind(w) \in SweepKinds /\ Holding(w, t)}) <= 1

\* C2: a single-target invocation that finds its target already "processing"
\* returns a conflict, makes no outbound call and writes nothing to the target.
C2_ReclaimIsConflict ==
    \A w \in Workers :
        (Kind(w) \in SingleTargetKinds /\ wk[w].st0 = "processing")
            => /\ wk[w].pc = "done"
               /\ wk[w].ret = "conflict"
               /\ wk[w].calls = 0
               /\ wk[w].wrote = ""

\* C3: an invocation that wrote "processing" has, when it returns, written a
\* terminal status or "pending" after it.
C3_NoProcessingLeak ==
    \A w \in Workers :
        (wk[w].pc = "done" /\ wk[w].setProc) => wk[w].wrote # "processing"

\* C4: two successive outbound attempts of one account are at least the
\* account cooldown apart (less a scheduling slack below one second).
C4_CooldownBetweenAttempts ==
    \A a \in Accounts : minGap[a] < 0 \/ minGap[a] + 1 >= ACCOUNT_COOLDOWN

\* C5: during a batch run at most 5 of its targets are claimed and being swept,
\* and at most 5 executor calls are in progress.
C5_FanoutBound ==
    \A b \in Batches :
        /\ Cardinality({t \in bat[b].targets :
              \E w \in Workers : w = <<"batch", b, t>> /\ Holding(w, t)}) <= 5
        /\ Cardinality({w \in Workers : Kind(w) = "batch" /\ w[2] = b
                                        /\ wk[w].pc = "calling"}) <= 5

C5_Witness ==
    /\ Cardinality({w \in Workers : wk[w].pc = "calling"}) = 5
    /\ \E w \in Workers : wk[w].pc = "sem"

C7_RetryCapRejects ==
    \A w \in Workers :
        (Kind(w) = "single" /\ wk[w].r0 >= 3)
            => /\ wk[w].calls = 0
               /\ wk[w].pc \in {"cap", "done"}
               /\ (wk[w].pc = "done" => wk[w].ret = "max_retry" /\ wk[w].wrote = "failed")

C7_Witness ==
    \E w \in Workers :
        /\ Kind(w) = "single" /\ wk[w].pc = "done" /\ wk[w].r0 = 3
        /\ wk[w].ret = "max_retry" /\ status[wk[w].t] = "failed"

\* C8: a retry counter never decreases; it grows by exactly one in the step in
\* which a single-target invocation finishes its sweep, and in no other step.
C8_RetryCountsInvocations ==
    [][\A t \in Targets :
          retry'[t] = retry[t] +
              Cardinality({w \in Workers :
                  /\ Kind(w) \in SingleTargetKinds /\ wk[w].t = t
                  /\ wk[w].pc \in {"final", "apifinal"} /\ wk'[w].pc = "done"})]_vars

C8_Witness ==
    \E w \in Workers :
        /\ Kind(w) = "single" /\ wk[w].pc = "done" /\ wk[w].ret = "ok"
        /\ wk[w].calls >= 3 /\ Len(wk[w].results) = 2
        /\ retry[wk[w].t] = wk[w].r0 + 1

\* C9: when a sweep has finished, the status it wrote is "completed" exactly
\* when one of its attempts returned 0, 12008 or 12022.
C9_CompletedIffDealtWith ==
    \A w \in Workers :
        (wk[w].pc = "done" /\ wk[w].ret = "ok")
            => (wk[w].wrote = "completed" <=> wk[w].dealt)

\* C10: in a sweep of report_service an account makes at most 3 attempts for
\* the target; it makes another one exactly after a 12019 response while
\* attempts remain, and not before 90 s have passed; after 12019 then 0 the
\* account has made two attempts and the target is written completed.
C10_RateLimitRetry ==
    \A w \in Workers :
        Kind(w) \in SweepKinds =>
            LET r == wk[w] IN
            /\ Len(r.cur) <= 3
            /\ \A k \in 1..(Len(r.cur) - 1) : r.cur[k] = 12019
            /\ (r.minPause < 0 \/ r.minPause >= 90)
            /\ (r.cur # <<>> /\ r.cur[Len(r.cur)] = 12019 /\ Len(r.cur) < 3)
                  => r.pc \in {"pensleep", "cool", "coolsleep", "calling"}
            /\ r.cur = <<12019, 0>>
                  => /\ r.pc \in {"final", "done"}
                     /\ (r.pc = "done" => r.wrote = "completed")

C10_Witness ==
    \E w \in Workers :
        /\ Kind(w) = "single" /\ wk[w].pc = "done"
        /\ wk[w].cur = <<12019, 0>> /\ wk[w].calls = 2
        /\ wk[w].minPause >= 90
        /\ status[wk[w].t] = "completed"

\* C11: in a sweep of report_service, once an attempt has succeeded the
\* invocation makes no further executor call: the successful result is the last
\* one and the accounts after it in the shuffled order are never called.
C11_EarlyExitOnSuccess ==
    [][\A w \in Workers :
          (Kind(w) \in SweepKinds /\ \E k \in DOMAIN wk[w].results : wk[w].results[k])
              => /\ wk'[w].calls = wk[w].calls
                 /\ wk'[w].results = wk[w].results
                 /\ wk'[w].pc \in {"final", "done"}]_vars

C11_Witness ==
    \E w \in Workers :
        /\ Kind(w) \in SweepKinds /\ wk[w].pc = "done"
        /\ Len(wk[w].order) = 2 /\ wk[w].results = <<TRUE>> /\ wk[w].calls = 1
        /\ status[wk[w].t] = "completed"

\* C17: after upsert_default_reply returns there is exactly one null-keyword
\* row; it carries the response of that call, and when null-keyword rows existed
\* before (duplicates included) it is the one with the smallest id.
C17_UpsertKeepsOneDefault ==
    lastOp.name = "upsert_default_reply"
        => /\ {i \in RuleIds : rules[i].keyword = NullKeyword} = {lastOp.res}
           /\ rules[lastOp.res].response = lastOp.arg
           /\ rules[lastOp.res].is_active
           /\ lastOp.pre # {} => \A i \in lastOp.pre : lastOp.res <= i

C17_Witness ==
    /\ lastOp.name = "upsert_default_reply"
    /\ Cardinality(lastOp.pre) >= 2
    /\ lastOp.arg = "reply B"
    /\ Cardinality({i \in RuleIds : rules[i].keyword = NullKeyword}) = 1

\* C18: the rule table never holds more than one rule with a null keyword.
C18_AtMostOneDefault ==
    Cardinality({i \in RuleIds : rules[i].keyword = NullKeyword}) <= 1

TaskOps == {"start_scheduler", "create_task", "update_task", "toggle_task", "delete_task"}

\* C19: once the scheduler has started, every active stored task has exactly
\* one of cron_expression and interval_seconds set.
C19_ActiveTaskHasOneTrigger ==
    schedulerRunning =>
        \A id \in TaskIds :
            tasks[id].is_active =>
                (tasks[id].cron_expression # CronNull)
                    # (tasks[id].interval_seconds # NoInterval)

\* C20: after a task operation has returned or raised, a job is registered for
\* a task id exactly when its stored row exists and is active, with the stored
\* trigger; a create or update that raised left the rows and the jobs as they were.
C20_JobsAgreeWithRows ==
    (schedulerRunning /\ lastOp.name \in TaskOps)
        => /\ \A id \in TaskIds \cup DOMAIN jobs :
                 /\ id \in DOMAIN jobs <=> (id \in TaskIds /\ tasks[id].is_active)
                 /\ id \in DOMAIN jobs => jobs[id] = JobOf(tasks[id])
           /\ (lastOp.res = "raised" /\ lastOp.name \in {"create_task", "update_task"})
                 => lastOp.pre = <<tasks, jobs>>

\* C12: the stored last_replied_ts of the (account, peer) pair never decreases,
\* whatever poll cycles (standalone and scheduled) run and however they interleave.
C12_LastRepliedNeverDecreases == [][last_msg_ts' >= last_msg_ts]_vars

\* C13: over consecutive poll cycles (no two of them overlapping) a message is
\* replied to once and the reply is logged once: no message is sent twice, a
\* cycle that has sent has written its audit row when it returns, and no cycle
\* is about to reply to a message whose timestamp is <= last_replied_ts.
C13_OneReplyPerMessage ==
    ~overlap =>
        /\ \A m \in 1..MaxTs : sendCount[m] <= 1
        /\ \A p \in Pollers : (cyc[p].pc \in Rest /\ cyc[p].sent) => cyc[p].logged
        /\ \A p \in Pollers : cyc[p].pc = "send" => cyc[p].ts > last_msg_ts

\* C14: a poll cycle that attempted a send has stored the message timestamp as
\* last_replied_ts by the time it returns, whether the send succeeded or failed.
C14_SendAlwaysRecorded ==
    \A p \in Pollers : (cyc[p].pc \in Rest /\ cyc[p].sent) => cyc[p].stored

\* C15: a poll cycle of the standalone loop and a poll cycle of a scheduled job
\* are never in progress at the same time.
C15_ModesNeverOverlap ==
    ~(InCycle(cyc[Loop]) /\ \E id \in Pollers \ {Loop} : InCycle(cyc[id]))

InvalidStoredTrigger(row) ==
    \/ (row.cron_expression # CronNull /\ ~CronParses(row.cron_expression))
    \/ (row.interval_seconds # NoInterval /\ row.interval_seconds <= 0)

\* C21: after start_scheduler, every stored task whose trigger was invalid is
\* inactive, has no registered job, and still holds the trigger columns it had.
C21_InvalidTriggerDeactivated ==
    lastOp.name = "start_scheduler" =>
        \A id \in DOMAIN lastOp.pre[1] :
            InvalidStoredTrigger(lastOp.pre[1][id]) =>
                /\ ~tasks[id].is_active
                /\ id \notin DOMAIN jobs
                /\ tasks[id].cron_expression = lastOp.pre[1][id].cron_expression
                /\ tasks[id].interval_seconds = lastOp.pre[1][id].interval_seconds

\* C22: after the start-up recovery no target is processing; a target that was
\* processing is pending, every other status and every retry counter is as the
\* previous process left it.
C22_RecoveryClearsProcessing ==
    /\ lastOp.name \in {"lifespan_recovery", "start_scheduler"}
          => \A t \in Targets : status[t] # "processing"
    /\ lastOp.name = "lifespan_recovery"
          => /\ retry = lastOp.pre[2]
             /\ \A t \in Targets :
                   status[t] = IF lastOp.pre[1][t] = "processing"
                               THEN "pending" ELSE lastOp.pre[1][t]

C22_Witness ==
    /\ lastOp.name = "lifespan_recovery"
    /\ \E t \in Targets : lastOp.pre[1][t] = "processing" /\ status[t] = "pending"
                          /\ retry[t] = MAX_RETRY_COUNT
    /\ \E t \in Targets : status[t] = "failed"

\* C23: an update_account call that changed the value of a credential column
\* left status unknown and last_check_at NULL; one that changed no credential
\* value left both as they were.
C23_CredentialChangeResetsStatus ==
    account.op.name = "update_account" =>
        IF account.op.changed
        THEN account.status = "unknown" /\ account.last_check_at = "NULL"
        ELSE /\ account.status = account.op.status
             /\ account.last_check_at = account.op.last_check_at

NoRetryCodes == {RiskControl, NotLoggedIn, HumanVerification}

\* C24: once a response with code -352, -101 or -799 has arrived, the call has
\* returned that response and made no further attempt, on both request paths.
C24_FailFastCodes ==
    (client.pc # "idle" /\ client.last \in NoRetryCodes)
        => /\ client.pc = "done"
           /\ client.ret = client.last
           /\ ~client.exhausted

C24_Witness ==
    /\ client.pc = "done" /\ client.path = "cross"
    /\ client.last = NotLoggedIn /\ client.ret = NotLoggedIn
    /\ client.calls = 2

\* C25: a call makes at most MAX_RETRIES HTTP attempts; when they are all
\* consumed it returns the envelope with code -999, otherwise it returns the
\* response it received last.
C25_BoundedAttempts ==
    /\ client.calls <= client.retries
    /\ client.pc = "done" =>
          IF client.exhausted
          THEN client.calls = client.retries /\ client.ret = MaxRetriesReached
          ELSE client.ret = client.last

\* C26: the executor never lets an exception out: whichever step raised, the
\* invocation ends by returning a record, a failed one when a step raised, with
\* an audit row written for the attempt.
C26_ExecutorNeverPropagates ==
    /\ executor.pc # "propagated"
    /\ executor.pc = "returned"
          => /\ executor.audits >= 1
             /\ executor.raisedIn # "" => ~executor.success

\* C28: when an exception escapes the steps of a dispatcher that set its target
\* to processing, the target is set to failed; it is not left in processing.
C28_CrashSetsFailed ==
    \A w \in Workers :
        wk[w].pc = "done" /\ wk[w].ret = "exception" => status[wk[w].t] = "failed"

\* C29: once every mutation of the accounts table has completed, the
\* active-accounts cache holds no projection other than the current one, so the
\* next read reflects the mutation, whatever the interleaving.
C29_CacheNeverStale ==
    (\A w \in Writers : cache.wr[w].pc = "idle")
       => (cache.entry.present => cache.entry.data = Projection(cache.table))

\* C30: the WBI refresh is single-flight: a call that found the keys stale signs
\* only after refresh_wbi_keys has run for it, at most one nav fetch is in
\* flight, a caller fetches only while the cached keys are still stale (so a
\* waiter reuses the keys of a refresh that succeeded meanwhile), each call
\* fetches at most once, and the refresh timestamp never goes back.
C30_SingleFlightRefresh ==
    /\ Cardinality({k \in Callers : wbi.cs[k].pc = "fetching"}) <= 1
    /\ \A k \in Callers :
          /\ wbi.cs[k].pc = "fetching" => wbi.lock = k /\ wbi_keys_stale(wbi)
          /\ wbi.cs[k].pc = "sign" /\ wbi.cs[k].foundStale
                => wbi.cs[k].fetched = 1 \/ wbi.img_key # ""
          /\ wbi.cs[k].fetched <= 1
    /\ wbi.refreshed_at >= wbi.prev
    /\ wbi.refreshed_at <= wbi.now

\* two calls found the keys stale; one fetched them, the other waited for the
\* lock and signs with the cached keys without a fetch of its own
C30_Witness ==
    \E k, j \in Callers :
        /\ k # j
        /\ wbi.cs[k].foundStale /\ wbi.cs[k].fetched = 1
        /\ wbi.cs[j].pc = "sign" /\ wbi.cs[j].foundStale /\ wbi.cs[j].fetched = 0
        /\ ~wbi_keys_stale(wbi)
        /\ wbi.refreshed_at > 0

\* the rules of the table that the claim lets win for a message: active, with
\* a non-null keyword that is a substring of the content
KeywordHits(m) ==
    {r \in {m.rows[i] : i \in DOMAIN m.rows} :
        r.is_active /\ ~r.keyword.null /\ IsSubstring(r.keyword.text, m.content)}

DefaultRules(m) ==
    {r \in {m.rows[i] : i \in DOMAIN m.rows} : r.is_active /\ r.keyword.null}

FirstOf(S) == CHOOSE r \in S : \A o \in S \ {r} : Precedes(r, o)

\* C27: the reply chosen is the response of the first active rule (priority
\* descending, id ascending) whose non-null keyword is a substring of the
\* content; failing that the default rule's response; failing that the
\* hard-coded fallback text.
C27_FirstMatchingRuleWins ==
    matcher.pc = "matched"
       => matcher.reply =
            IF KeywordHits(matcher) # {} THEN FirstOf(KeywordHits(matcher)).response
            ELSE IF DefaultRules(matcher) # {} THEN FirstOf(DefaultRules(matcher)).response
            ELSE FALLBACK_AUTOREPLY_TEXT

\* the keyword hits the code lets win: the keyword is a non-empty text as well
NonEmptyKeywordHits(m) == {r \in KeywordHits(m) : r.keyword.text # <<>>}

\* C27 (amended): the reply chosen is the response of the first active rule
\* (priority descending, id ascending) whose keyword is neither null nor empty
\* and is a substring of the content; failing that the first default rule's
\* response; failing that the hard-coded fallback text.
C27_FirstNonEmptyKeywordWins ==
    matcher.pc = "matched"
       => matcher.reply =
            IF NonEmptyKeywordHits(matcher) # {}
            THEN FirstOf(NonEmptyKeywordHits(matcher)).response
            ELSE IF DefaultRules(matcher) # {} THEN FirstOf(DefaultRules(matcher)).response
            ELSE FALLBACK_AUTOREPLY_TEXT

\* two keyword rules hit the message, the one with the larger id has the higher
\* priority and its response is the reply
C27_Witness ==
    /\ matcher.pc = "matched"
    /\ Cardinality(NonEmptyKeywordHits(matcher)) = 2
    /\ FirstOf(NonEmptyKeywordHits(matcher)).id = 2
    /\ matcher.rows[1].response # matcher.rows[2].response
    /\ matcher.reply = matcher.rows[2].response

\* C31: a single-target invocation that finds no requested account active and
\* valid returns without an executor call, with the retry counter as it found
\* it, and the target is pending afterwards.
C31_EmptySelectionRestoresPending ==
    \A w \in Workers :
        (Kind(w) = "single" /\ wk[w].pc = "done" /\ wk[w].ret = "no_accounts")
           => /\ wk[w].calls = 0
              /\ retry[wk[w].t] = wk[w].r0
              /\ status[wk[w].t] = "pending"

\* C32: the per-target task of a batch run takes the steps of the single-target
\* path: it claims a pending target only, it starts no sweep on a target whose
\* retry counter has reached the cap, and its terminal step writes the status
\* of the sweep and counts the invocation in the retry counter.
C32_BatchTaskLikeSingle ==
    [][\A w \in Workers :
          Kind(w) = "batch" =>
             /\ (wk[w].pc = "sem" /\ wk'[w].pc = "cool")
                   => /\ claim_target_for_processing(status[wk[w].t])
                      /\ ~MaxRetryReached(retry[wk[w].t])
             /\ (wk[w].pc = "final" /\ wk'[w].pc = "done")
                   => /\ status'[wk[w].t] = FinalStatus(wk[w].results)
                      /\ retry'[wk[w].t] = retry[wk[w].t] + 1]_vars

\* the edges of the target lifecycle: claim, terminal write, abort or start-up
\* recovery, re-submission
LifecycleEdges ==
    {<<"pending", "processing">>, <<"processing", "completed">>,
     <<"processing", "failed">>, <<"processing", "pending">>,
     <<"completed", "pending">>, <<"failed", "pending">>}

\* C33: every change of a target's status follows one of the lifecycle edges.
C33_LifecycleEdgesOnly ==
    [][\A t \in Targets :
          status'[t] # status[t] => <<status[t], status'[t]>> \in LifecycleEdges]_vars

\* C34: in a cycle of the service an account whose send returned 21046 makes no
\* further send in that cycle, and the cycle still polls every account.
C34_RateLimitStopsAccount ==
    pollCycle.mode = "service"
       => /\ ~pollCycle.lateSend
          /\ \A a \in pollCycle.limited : pollCycle.ai > a
          /\ (pollCycle.pc = "done" => pollCycle.polled = PollAccounts)

\* the first account was stopped by 21046 with a message of its second peer
\* still unanswered, and the next account sent a reply in the same cycle
C34_Witness ==
    /\ pollCycle.mode = "service"
    /\ pollCycle.pc = "done"
    /\ pollCycle.limited = {1}
    /\ pollCycle.thread[<<1, 12>>].sender = 12
    /\ pollCycle.thread[<<1, 12>>].ts > pollCycle.replied[<<1, 12>>]
    /\ \E m \in pollCycle.sends : m.account = 2

\* C35: no reply is sent for a session whose peer is the account's own uid or
\* whose last message was sent by the account's own uid.
C35_NoReplyToOwnMessage ==
    \A m \in pollCycle.sends :
        m.talker_id # m.account /\ m.sender_uid # m.account

\* C36: after any sequence or interleaving of successful QR logins at most
\* one account row exists per non-null platform UID, no login inserts a row
\* while a row with its UID exists, and a finished login with a UID leaves
\* its row holding that UID with status valid.
C36_OneRowPerUid ==
    /\ \A i, j \in DOMAIN qr.rows :
          (i # j /\ qr.rows[i].uid # NoUid) => qr.rows[i].uid # qr.rows[j].uid
    /\ \A i \in DOMAIN qr.rows : ~qr.rows[i].dup
    /\ \A l \in DOMAIN qr.procs :
          (qr.procs[l].pc = "done" /\ qr.procs[l].uid # NoUid) =>
             /\ qr.rows[qr.procs[l].id].uid = qr.procs[l].uid
             /\ qr.rows[qr.procs[l].id].status = "valid"

\* C37: at most one check-all sweep is alive at a time; a request is
\* answered 409 exactly when it arrives while a sweep is alive, and 202
\* otherwise; the flag is set exactly while a sweep is alive, so it is
\* released when the sweep finishes, normally or with an error.
C37_OneSweepAtATime ==
    /\ checkAll.alive <= 1
    /\ checkAll.running <=> checkAll.alive = 1
    /\ checkAll.alive = 1 <=> checkAll.pc # "none"
    /\ \A i \in DOMAIN checkAll.responses :
          checkAll.responses[i] = IF checkAll.seen[i] > 0 THEN Conflict ELSE Accepted
    /\ Len(checkAll.ends) + checkAll.alive
          = Cardinality({i \in DOMAIN checkAll.responses :
                           checkAll.responses[i] = Accepted})

\* a request was rejected while the first sweep ran, that sweep ended with
\* an error, the next request was accepted and its sweep ended normally
C37_Witness ==
    /\ checkAll.responses = <<Accepted, Conflict, Accepted>>
    /\ checkAll.ends = <<"error", "normal">>
    /\ ~checkAll.running

\* C38: for every pair with 0 < min_s <= max_s the value _human_delay
\* returns lies in [min_s, 1.5 * max_s], whatever the random draw is
\* (in half seconds: between 2 * min_s and 3 * max_s).
C38_DelayInRange ==
    (delay.called /\ 0 < delay.min_s /\ delay.min_s <= delay.max_s) =>
       /\ 2 * delay.min_s <= delay.result
       /\ delay.result <= 3 * delay.max_s

\* a draw above 1.5 * max_s was clamped to the upper end for a valid pair
C38_Witness ==
    /\ delay.called
    /\ 0 < delay.min_s
    /\ delay.min_s < delay.max_s
    /\ delay.draw > 3 * delay.max_s
    /\ delay.result = 3 * delay.max_s

\* C39: at most one standalone poll loop is alive; start_service returning
\* while the flag is set returns False, also when two calls interleave at
\* their awaits; stop_service when not running returns False; after
\* stop_service returned True no loop started before it begins another poll
\* cycle, even if the service is started again.
C39_OneLoopAlive ==
    /\ Cardinality(AliveLoops) <= 1
    /\ (loops.last.name = "start" /\ loops.last.wasRunning) => ~loops.last.res
    /\ (loops.last.name = "stop" /\ ~loops.last.wasRunning) => ~loops.last.res
    /\ ~loops.zombie

\* C40: a failure of the live-event channel never changes the recorded
\* outcome: once the platform answered an attempt with a success code, the
\* invocation ends by returning success = true with exactly one audit row for
\* the attempt, a row with success = true, even if publishing fails or two
\* publications run concurrently.
C40_ChannelNeverChangesOutcome ==
    (executor.platformOk /\ executor.pc \in {"handler_log", "handler_publish",
                                             "returned", "propagated"}) =>
       /\ executor.pc = "returned"
       /\ executor.success
       /\ executor.audits = 1
       /\ executor.okAudits = 1

====
